---- MODULE Spec2Model ----
(***************************************************************************)
(* A model of the kivik sqlite view engine: the grouping / re-reduce       *)
(* engine of x/sqlite/reduce, the view index with its update modes and its *)
(* indexing passes, the document store (seq assignment, reads by id), the  *)
(* iterators and the Client of the kivik API, queries of a view with       *)
(* options, DeleteAttachment and OpenRevs, the cancelable reader of the    *)
(* couchdb driver, ScanAllDocs of the rows of the kivik API, and the       *)
(* access checks and the auth middleware of the server.                    *)
(***************************************************************************)
EXTENDS Integers, Sequences, FiniteSets, TLC

VARIABLES
    \* ---- reduce engine (x/sqlite/reduce/reduce.go) ----
    rows,        \* the rows handed to Reduce, in key-sorted order
    groupLevel,  \* the groupLevel argument
    fnName,      \* which reducer function fn is
    pending,     \* the rows the next invocation of reduce() consumes
    out,         \* the rows returned by the latest invocation of reduce()
    calls,       \* every flush of a batch so far: reducer calls and pass-throughs
    depth,       \* number of invocations of reduce() so far
    rpc,         \* "idle" | "reduce" | "done"
    \* ---- view index and queries ----
    docs,        \* the revs and docs tables: one row per stored revision
    nextSeq,     \* the next seq the docs table assigns
    design,      \* the design table: design revision -> last_seq of its view
    mapTable,    \* the map table of each design revision's view: set of rows
    bg,          \* the views whose background indexing pass is started and not ended
    lastQuery,   \* the response of the operation just performed, when it was a query
    \* ---- document store: seq assignment and reads by id ----
    assigned,    \* every seq the docs table has assigned to a row so far
    lastGet,     \* the response of the operation just performed, when it was a GetRev
    \* ---- indexing passes, batch by batch ----
    passes,      \* the indexing passes that hold a lease: view, requester, open batch
    interrupted, \* an update=true pass of the current view was cancelled, a batch open
    \* ---- one iterator: reduce.Rows, the cancelable reader, or kivik rows ----
    itKind,      \* which iterator it is
    itRows,      \* the items it has not delivered yet (0: an item whose read fails)
    itState,     \* "open" | "closed" (by Close; reduce.Rows: nil) | "done" (closed itself)
    itErr,       \* what Err returns ("": nil)
    lastRead,    \* the latest call on the iterator and what it returned
    closedEarly, \* Close was called while items remained
    closeCalls,  \* number of calls of Close so far
    \* ---- one Client of the kivik API ----
    clClosed,    \* the closed field of the Client
    driverCalls, \* number of calls that reached the driver
    lastCall,    \* the latest call on the Client and what it returned
    \* ---- one view and the queries of it (Query of the sqlite driver) ----
    qView,       \* the view of the design document: its map and its reduce function
    qOpts,       \* the options the client queries the view with
    qDocs,       \* the documents stored: id and the field the map function emits
    qIndex,      \* the map rows of the view
    qLogs,       \* the documents the log names as failures of the map function
    lastPlan,    \* the response of the operation just performed, when it was a query
    \* ---- one document and its attachments (DeleteAttachment of the sqlite driver) ----
    atRevs,      \* the revs table: the revisions of the document
    atBridge,    \* the attachments bridge table: (revision, filename) references
    lastDel,     \* the latest DeleteAttachment, when it is the operation just performed
    \* ---- one cancelable reader and its context (couchdb driver) ----
    rdSrc,       \* what the underlying reader has left to give (0: a read error)
    rdCtx,       \* the error of the context ("": not done) and the bytes delivered by then
    rdState,     \* "open" | "closed" (by Close) | "done" (ended, by itself or by an error)
    rdErr,       \* the error the reader ended with ("": none)
    rdBlocked,   \* a Read is in flight, its underlying read blocked
    rdOut,       \* the data delivered to the caller so far
    lastRd,      \* the latest call of Read and what it returned
    \* ---- ScanAllDocs of the rows of the kivik API (rows.go) ----
    scDest,      \* dest: what it is, and the elements of the slice or array behind it
    scRowsErr,   \* the err field of the rows ("": nil)
    lastScan,    \* the call of ScanAllDocs: its result, and the iterator it was called on
    \* ---- OpenRevs of the sqlite driver and the iterator it returns ----
    orSet,       \* the revisions of the result set of the query, in its order
    orStatus,    \* "none": OpenRevs not called | "iter": it returned an iterator | "404"
    orCur,       \* the row the cursor of sql.Rows is on (NoRow: none)
    orRest,      \* the rows of sql.Rows after the cursor
    orPre,       \* the field pre of openRevsRows
    orGot,       \* the rows delivered by Next so far
    lastOR,      \* the latest call on the iterator and what it returned
    \* ---- the auth middleware and the access checks of the server ----
    auUser,      \* the user of the request (Nobody: no user context)
    auSec,       \* the security object of the database
    auFuncs,     \* what each configured auth function does with the request
    lastAuth     \* the latest check or request, and how it ended

redVars == <<rows, groupLevel, fnName, pending, out, calls, depth, rpc>>
idxVars == <<docs, nextSeq, design, mapTable, bg, lastQuery>>
stVars == <<assigned, lastGet>>
lsVars == <<passes, interrupted>>
itVars == <<itKind, itRows, itState, itErr, lastRead, closedEarly, closeCalls>>
clVars == <<clClosed, driverCalls, lastCall>>
plVars == <<qView, qOpts, qDocs, qIndex, qLogs, lastPlan>>
atVars == <<atRevs, atBridge, lastDel>>
rdVars == <<rdSrc, rdCtx, rdState, rdErr, rdBlocked, rdOut, lastRd>>
scVars == <<scDest, scRowsErr, lastScan>>
orVars == <<orSet, orStatus, orCur, orRest, orPre, orGot, lastOR>>
auVars == <<auUser, auSec, auFuncs, lastAuth>>
apiVars == <<itVars, clVars, plVars, atVars, rdVars, scVars, orVars, auVars>>
vars == <<redVars, idxVars, stVars, lsVars, apiVars>>

(***************************************************************************)
(* Bounds                                                                  *)
(***************************************************************************)
MaxRows == 3        \* longest input handed to Reduce
MaxDepth == 3       \* most recursive calls reduce() makes on its own output
MaxSeq == 3         \* most revisions written to the revs and docs tables
MaxViews == 2       \* most design revisions while passes run batch by batch
MaxItems == 3       \* most items an iterator starts with
MaxCloses == 2      \* most calls of Close on one iterator
MaxCalls == 5       \* most calls of one Client that reach the driver
MaxPlanDocs == 3    \* most documents stored when a view is queried with options
MaxPage == 2        \* largest skip and largest limit of a query
MaxAttRevs == 4     \* most revisions of the document that has attachments
MaxSrc == 3         \* most items the reader under a cancelable reader gives
MaxArray == 2       \* longest array passed to ScanAllDocs
MaxOpenRevs == 3    \* most revisions in the result set of OpenRevs
MaxAtts == 2        \* most attachments of a revision in that result set
MaxFuncs == 3       \* most auth functions configured on the server

(***************************************************************************)
(* JSON keys.  A key is null, a scalar or an array of scalars; the three   *)
(* are different Go dynamic types, so equal only to their own kind.        *)
(***************************************************************************)
KeyNull == [kind |-> "null", s |-> 0, elems |-> <<>>]
Scalar(v) == [kind |-> "scalar", s |-> v, elems |-> <<>>]
Array(e) == [kind |-> "array", s |-> 0, elems |-> e]

\* The keys used as inputs, in CouchDB collation order:
\* null < "a" < [] < ["a"] < ["a","a"] < ["a","b"]
KeyOrder ==
    << KeyNull, Scalar(1), Array(<<>>), Array(<<1>>), Array(<<1, 1>>), Array(<<1, 2>>) >>

Values == {1, 2}
Levels == {-1, 0, 1, 2}
FnNames == {"_count", "_sum"}

\* reduce.go: keyLen
keyLen(key) ==
    IF key.kind = "null" THEN 0
    ELSE IF key.kind = "array" THEN Len(key.elems)
    ELSE 1

\* reduce.go: truncateKey
truncateKey(key, level) ==
    IF level = 0 THEN KeyNull
    ELSE IF key.kind # "array" THEN key
    ELSE IF level > 0 /\ level < Len(key.elems)
         THEN Array(SubSeq(key.elems, 1, level))
         ELSE key

RECURSIVE SumValues(_)
SumValues(vs) == IF vs = <<>> THEN 0 ELSE Head(vs) + SumValues(Tail(vs))

\* The reducer function fn (reduce.Func): _count counts its values and _sum
\* adds them; on rereduce both add the partial results.  One result per call.
\* "sum_count" is a function that returns two results, a sum and a count.
fn(name, keys, values, rereduce) ==
    IF name = "sum_count" THEN << SumValues(values), Len(values) >>
    ELSE IF rereduce \/ name = "_sum" THEN << SumValues(values) >>
    ELSE << Len(values) >>

\* The state of one invocation of reduce(): out, first, last, the batch
\* (keys, values), targetKey, rereduce, and the log of flushed batches;
\* batch keeps the rows the pairs of keys and the values were taken from.
NewPass ==
    [ out |-> <<>>, first |-> 0, last |-> 0, keys |-> <<>>, values |-> <<>>,
      batch |-> <<>>, targetKey |-> KeyNull, rereduce |-> FALSE, log |-> <<>> ]

\* A pass-through that forgets to test rereduce.
passThroughAnySingle(keys, rereduce) == Len(keys) = 1

\* reduce.go: the pass-through test of callReduce
passThrough(keys, rereduce) == Len(keys) = 1 /\ rereduce

\* reduce.go: the rows callReduce makes of the reducer's results
resultRows(results, key, first, last) ==
    [ i \in 1..Len(results) |->
        [ First |-> IF i = 1 THEN first ELSE 0,
          Last  |-> IF i = 1 THEN last ELSE 0,
          ID    |-> "",
          Key   |-> IF keyLen(key) > 0 THEN key ELSE KeyNull,
          Value |-> results[i] ] ]

\* reduce.go: callReduce(keys, values, rereduce, key), on the batch of st
callReduce(st, name) ==
    IF Len(st.keys) = 0 THEN st
    ELSE IF passThrough(st.keys, st.rereduce)
    THEN LET row == [ First |-> st.first, Last |-> st.last, ID |-> "",
                      Key |-> st.targetKey, Value |-> st.values[1] ]
         IN [ st EXCEPT !.out = Append(@, row),
                        !.log = Append(@, [ via |-> "pass", keys |-> st.keys,
                                            values |-> st.values,
                                            rereduce |-> st.rereduce,
                                            input |-> st.batch,
                                            rows |-> << row >> ]) ]
    ELSE LET results == fn(name, st.keys, st.values, st.rereduce)
             new == resultRows(results, st.targetKey, st.first, st.last)
         IN [ st EXCEPT !.out = @ \o new,
                        !.first = IF Len(results) > 0 THEN 0 ELSE @,
                        !.last = IF Len(results) > 0 THEN 0 ELSE @,
                        !.log = Append(@, [ via |-> "fn", keys |-> st.keys,
                                            values |-> st.values,
                                            rereduce |-> st.rereduce,
                                            input |-> st.batch,
                                            rows |-> new ]) ]

\* The switch without its groupLevel == 0 disjunct.
flushBeforeKeyOnly(st, row, level) ==
    /\ st.targetKey # KeyNull
    /\ \/ st.targetKey # truncateKey(row.Key, level)
       \/ st.rereduce # (row.ID = "")

\* reduce.go: the first case of the switch in the loop of reduce()
flushBefore(st, row, level) ==
    \/ level = 0 /\ st.rereduce # (row.ID = "")
    \/ /\ st.targetKey # KeyNull
       /\ \/ st.targetKey # truncateKey(row.Key, level)
          \/ st.rereduce # (row.ID = "")

\* reduce.go: one iteration of the loop of reduce() on row
loopBody(st, row, name, level) ==
    LET flushed == [ callReduce(st, name) EXCEPT !.keys = <<>>, !.values = <<>>,
                                                !.batch = <<>> ]
        started(s) == [ s EXCEPT !.targetKey = truncateKey(row.Key, level),
                                 !.rereduce = (row.ID = "") ]
        s1 == IF flushBefore(st, row, level) THEN started(flushed)
              ELSE IF st.targetKey = KeyNull THEN started(st)
              ELSE st
    IN [ s1 EXCEPT !.first = IF @ = 0 THEN row.First ELSE @,
                   !.last = row.Last,
                   !.keys = Append(@, << row.Key, row.ID >>),
                   !.values = Append(@, row.Value),
                   !.batch = Append(@, row) ]

RECURSIVE loop(_, _, _, _)
loop(st, input, name, level) ==
    IF input = <<>> THEN st
    ELSE loop(loopBody(st, Head(input), name, level), Tail(input), name, level)

\* reduce.go: reduce() up to its final callReduce
reducePass(input, name, level) == callReduce(loop(NewPass, input, name, level), name)

\* reduce.go: the test that sends the output through reduce() again
needsRereduce(o, level) ==
    /\ Len(o) > 1
    /\ \E i \in 2..Len(o) :
          truncateKey(o[1].Key, level) = truncateKey(o[i].Key, level)


(***************************************************************************)
(* Inputs of Reduce                                                        *)
(***************************************************************************)
\* Row i of an input: a raw row (ID non-empty) is map row 2i, a pre-reduced
\* row (ID empty) covers the map rows 2i-1..2i.
InputRow(i, k, raw, v) ==
    [ First |-> IF raw THEN 2 * i ELSE 2 * i - 1, Last |-> 2 * i,
      ID |-> IF raw THEN "doc" ELSE "", Key |-> KeyOrder[k], Value |-> v ]

KeySorted(ks) == \A i \in 1..(Len(ks) - 1) : ks[i] <= ks[i + 1]

\* The inputs of length n: key-sorted, each row raw or pre-reduced.
Inputs(n) ==
    { [ i \in 1..n |-> InputRow(i, ks[i], raws[i], vs[i]) ] :
        ks \in { x \in [1..n -> 1..Len(KeyOrder)] : KeySorted(x) },
        raws \in [1..n -> BOOLEAN],
        vs \in [1..n -> Values] }

IdxIdle ==
    /\ docs = {}
    /\ nextSeq = 1
    /\ design = <<>>
    /\ mapTable = <<>>
    /\ bg = {}
    /\ lastQuery = [ update |-> "none", status |-> 0, rows |-> {} ]

NoGet == [ id |-> "", asked |-> << 0, 0 >>, status |-> 0, rev |-> 0, rev_id |-> 0 ]

StIdle ==
    /\ assigned = {}
    /\ lastGet = NoGet

LsIdle ==
    /\ passes = {}
    /\ interrupted = FALSE

NoCall == [ op |-> "none", result |-> "" ]

ItIdle ==
    /\ itKind = "reduce"
    /\ itRows = <<>>
    /\ itState = "open"
    /\ itErr = ""
    /\ lastRead = NoCall
    /\ closedEarly = FALSE
    /\ closeCalls = 0

NoAnswer == [ op |-> "none", status |-> 0, err |-> "" ]

ClIdle ==
    /\ clClosed = FALSE
    /\ driverCalls = 0
    /\ lastCall = NoAnswer

\* The options of a query, none given.
DefaultOpts ==
    [ reduce |-> "unset", group |-> FALSE, group_level |-> "unset",
      include_docs |-> FALSE, conflicts |-> FALSE, descending |-> FALSE,
      startkey |-> 0, endkey |-> 0, inclusive_end |-> TRUE, skip |-> 0, limit |-> -1 ]

NoPlan == [ status |-> 0, err |-> "", rows |-> <<>> ]

PlIdle ==
    /\ qView = [ map |-> "emit", reduce |-> "" ]
    /\ qOpts = DefaultOpts
    /\ qDocs = {}
    /\ qIndex = {}
    /\ qLogs = {}
    /\ lastPlan = NoPlan

NoDel == [ status |-> 0, err |-> "", asked |-> << 0, 0 >>, filename |-> "" ]

AtIdle ==
    /\ atRevs = {}
    /\ atBridge = {}
    /\ lastDel = NoDel

CtxLive == [ err |-> "", at |-> 0 ]

RdIdle ==
    /\ rdSrc = <<>>
    /\ rdCtx = CtxLive
    /\ rdState = "open"
    /\ rdErr = ""
    /\ rdBlocked = FALSE
    /\ rdOut = <<>>
    /\ lastRd = NoCall

NoScan == [ result |-> "", rows |-> <<>>, state |-> "" ]

ScIdle ==
    /\ scDest = [ kind |-> "slice", elems |-> <<>> ]
    /\ scRowsErr = ""
    /\ lastScan = NoScan

NoRow == [ rev |-> 0, deleted |-> "null", count |-> 0, filename |-> 0 ]

OrIdle ==
    /\ orSet = <<>>
    /\ orStatus = "none"
    /\ orCur = NoRow
    /\ orRest = <<>>
    /\ orPre = FALSE
    /\ orGot = <<>>
    /\ lastOR = NoCall

Nobody == [ nil |-> TRUE, name |-> "", roles |-> {} ]
NoSecurity == [ mNames |-> {}, mRoles |-> {}, aNames |-> {}, aRoles |-> {} ]
NoAuth == [ op |-> "none", status |-> 0, next |-> FALSE, user |-> Nobody, consulted |-> 0 ]

AuIdle ==
    /\ auUser = Nobody
    /\ auSec = NoSecurity
    /\ auFuncs = <<>>
    /\ lastAuth = NoAuth

ApiIdle == ItIdle /\ ClIdle /\ PlIdle /\ AtIdle /\ RdIdle /\ ScIdle /\ OrIdle /\ AuIdle

RedIdle ==
    /\ rows = <<>>
    /\ groupLevel = 0
    /\ fnName = "_count"
    /\ pending = <<>>
    /\ out = <<>>
    /\ calls = <<>>
    /\ depth = 0
    /\ rpc = "idle"

InitReduce ==
    /\ \E n \in 1..MaxRows : rows \in Inputs(n)
    /\ groupLevel \in Levels
    /\ fnName \in FnNames
    /\ pending = rows
    /\ out = <<>>
    /\ calls = <<>>
    /\ depth = 0
    /\ rpc = "reduce"
    /\ IdxIdle
    /\ StIdle
    /\ LsIdle
    /\ ApiIdle

\* One invocation of reduce() whose output needs no further pass: Reduce returns.
ReduceReturn ==
    /\ rpc = "reduce"
    /\ LET st == reducePass(pending, fnName, groupLevel)
       IN /\ ~needsRereduce(st.out, groupLevel)
          /\ out' = st.out
          /\ calls' = calls \o st.log
          /\ pending' = <<>>
    /\ depth' = depth + 1
    /\ rpc' = "done"
    /\ UNCHANGED <<rows, groupLevel, fnName, idxVars, stVars, lsVars, apiVars>>

\* One invocation of reduce() that ends in the recursive call reduce(&out, ...).
ReduceRecurse ==
    /\ rpc = "reduce"
    /\ depth < MaxDepth
    /\ LET st == reducePass(pending, fnName, groupLevel)
       IN /\ needsRereduce(st.out, groupLevel)
          /\ out' = st.out
          /\ calls' = calls \o st.log
          /\ pending' = st.out
    /\ depth' = depth + 1
    /\ UNCHANGED <<rows, groupLevel, fnName, rpc, idxVars, stVars, lsVars, apiVars>>

NextReduce == ReduceReturn \/ ReduceRecurse

SpecReduce == InitReduce /\ [][NextReduce]_vars

\* Reduce with a function that returns several results for one call.
MultiFnNames == { "sum_count" }

InitReduceMulti ==
    /\ \E n \in 1..MaxRows : rows \in Inputs(n)
    /\ groupLevel \in Levels
    /\ fnName \in MultiFnNames
    /\ pending = rows
    /\ out = <<>>
    /\ calls = <<>>
    /\ depth = 0
    /\ rpc = "reduce"
    /\ IdxIdle
    /\ StIdle
    /\ LsIdle
    /\ ApiIdle

SpecReduceMulti == InitReduceMulti /\ [][NextReduce]_vars

\* Reduce on the rows of a scan in either direction: the keys ascend or
\* descend in collation order, and every row has the value 1.
KeySortedDesc(ks) == \A i \in 1..(Len(ks) - 1) : ks[i] >= ks[i + 1]

ScanInputs(n) ==
    { [ i \in 1..n |-> InputRow(i, ks[i], raws[i], 1) ] :
        ks \in { x \in [1..n -> 1..Len(KeyOrder)] : KeySorted(x) \/ KeySortedDesc(x) },
        raws \in [1..n -> BOOLEAN] }

InitReduceScan ==
    /\ \E n \in 1..MaxRows : rows \in ScanInputs(n)
    /\ groupLevel \in Levels
    /\ fnName \in FnNames
    /\ pending = rows
    /\ out = <<>>
    /\ calls = <<>>
    /\ depth = 0
    /\ rpc = "reduce"
    /\ IdxIdle
    /\ StIdle
    /\ LsIdle
    /\ ApiIdle

SpecReduceScan == InitReduceScan /\ [][NextReduce]_vars

(***************************************************************************)
(* Document store (x/sqlite/schema.go) and the view index                  *)
(***************************************************************************)
DDoc == "_design/foo"
DocIDs == {"a", "b"}
\* The rev id of a revision is a digest of its content: one per value, and
\* one (that of value 1) for the tombstone and for the design document.
revIDOf(val) == IF val = 0 THEN 1 ELSE val
NoParent == << 0, 0 >>
NoResult == [ update |-> "none", status |-> 0, rows |-> {} ]

\* schema.go: a row of the revs table joined with its row of the docs table
DocRow(seq, id, rev, revID, parent, deleted, val) ==
    [ seq |-> seq, id |-> id, rev |-> rev, rev_id |-> revID, parent |-> parent,
      deleted |-> deleted, val |-> val ]

\* The leaves view with its "child.id IS NULL" filter dropped.
LeavesAllRevs(id) == { r \in docs : r.id = id }

\* schema.go: the leaves view: the revisions of id that have no child
Leaves(id) ==
    { r \in docs : /\ r.id = id
                   /\ ~\E child \in docs :
                         child.id = id /\ child.parent = << r.rev, r.rev_id >> }

RevLess(x, y) == x.rev < y.rev \/ (x.rev = y.rev /\ x.rev_id < y.rev_id)

\* The candidates for the winning revision: the non-deleted leaves.
Live(id) == { r \in Leaves(id) : ~r.deleted }
HasWinner(id) == Live(id) # {}
\* The winning revision: the non-deleted leaf with the highest (rev, rev_id).
Winner(id) == CHOOSE r \in Live(id) : \A o \in Live(id) : o = r \/ RevLess(o, r)

\* The leaf a new edit of id extends when no rev is given: the winner, or the
\* highest tombstone when every leaf is deleted.
Tip(id) ==
    IF HasWinner(id) THEN Winner(id)
    ELSE CHOOSE r \in Leaves(id) : \A o \in Leaves(id) : o = r \/ RevLess(o, r)

\* The design table keeps one row, and so one last_seq, per design revision.
\* A key that leaves the revision out: every revision shares one row.
designRowShared(rev) == 1

\* schema.go: the key of a view's row of the design table, UNIQUE (id, rev,
\* rev_id, func_type, func_name); the design document has one view and a
\* linear history, so the revision number stands for the key.
designRow(rev) == rev

\* The current revision of the design document (0: there is none).
CurRev == Len(design)
View == designRow(CurRev)

\* The map function of the view: function(doc) { emit(doc.val, doc.val); }
mapFn(doc) == { [ id |-> doc.id, key |-> doc.val, value |-> doc.val ] }

Emissions(id) == IF HasWinner(id) THEN mapFn(Winner(id)) ELSE {}

replaceEmissions(tbl, id, pairs) == { r \in tbl : r.id # id } \cup pairs

\* The indexer: every change with seq > last_seq, in ascending seq order.
RECURSIVE indexFrom(_, _)
indexFrom(tbl, seq) ==
    IF seq >= nextSeq THEN tbl
    ELSE IF \E d \in docs : d.seq = seq
    THEN LET change == CHOOSE d \in docs : d.seq = seq
         IN indexFrom(IF change.id = DDoc THEN tbl
                      ELSE replaceEmissions(tbl, change.id, Emissions(change.id)),
                      seq + 1)
    ELSE indexFrom(tbl, seq + 1)

\* One indexing pass of the view v: the map table and last_seq it leaves.
IndexPass(v) ==
    /\ mapTable' = [ mapTable EXCEPT ![v] = indexFrom(mapTable[v], design[v] + 1) ]
    /\ design' = [ design EXCEPT ![v] = nextSeq - 1 ]

\* Every update mode runs the indexer before answering.
runsIndexerAlways(update) == TRUE
\* update=true runs the indexer before answering.
runsIndexer(update) == update = "true"

\* No update mode starts a background pass.
startsBackgroundNever(update) == FALSE
\* update=lazy starts a background pass and does not wait for it.
startsBackground(update) == update = "lazy"

InitIndex ==
    /\ docs = {}
    /\ nextSeq = 1
    /\ design = <<>>
    /\ mapTable = <<>>
    /\ bg = {}
    /\ lastQuery = NoResult
    /\ RedIdle
    /\ StIdle
    /\ LsIdle
    /\ ApiIdle

Insert(row) ==
    /\ nextSeq <= MaxSeq
    /\ ~\E d \in docs : d.id = row.id /\ d.rev = row.rev /\ d.rev_id = row.rev_id
    /\ docs' = docs \cup { row }
    /\ nextSeq' = nextSeq + 1
    /\ assigned' = assigned \cup { row.seq }
    /\ lastQuery' = NoResult
    /\ lastGet' = NoGet
    /\ UNCHANGED <<lsVars, apiVars>>

\* Put of a document: a new edit on top of its current tip, or its first revision.
PutDocOf(id, val) ==
    /\ IF Leaves(id) = {}
       THEN Insert(DocRow(nextSeq, id, 1, revIDOf(val), NoParent, FALSE, val))
       ELSE Insert(DocRow(nextSeq, id, Tip(id).rev + 1, revIDOf(val),
                          << Tip(id).rev, Tip(id).rev_id >>, FALSE, val))
    /\ UNCHANGED <<design, mapTable, bg, redVars>>

PutDoc == \E id \in DocIDs, val \in Values : PutDocOf(id, val)

\* Put with new_edits=false: a first revision is stored as given, beside
\* whatever revisions the document has.
PutNewEditsFalse ==
    \E id \in DocIDs, val \in Values :
        /\ Insert(DocRow(nextSeq, id, 1, revIDOf(val), NoParent, FALSE, val))
        /\ UNCHANGED <<design, mapTable, bg, redVars>>

\* Delete of a document at its winning revision: a tombstone on top of it.
DeleteDocOf(id) ==
    /\ HasWinner(id)
    /\ Insert(DocRow(nextSeq, id, Winner(id).rev + 1, revIDOf(0),
                     << Winner(id).rev, Winner(id).rev_id >>, TRUE, 0))
    /\ UNCHANGED <<design, mapTable, bg, redVars>>

DeleteDoc == \E id \in DocIDs : DeleteDocOf(id)

\* Put of the design document: a new design revision, whose view has a new
\* row of the design table (last_seq NULL) and no map rows.
PutDDoc ==
    /\ Insert(DocRow(nextSeq, DDoc, CurRev + 1, revIDOf(0),
                     IF CurRev = 0 THEN NoParent ELSE << CurRev, revIDOf(0) >>, FALSE, 0))
    /\ design' = Append(design, 0)
    /\ mapTable' = Append(mapTable, {})
    /\ UNCHANGED <<bg, redVars>>

\* Query of the view with the given update mode.
Query(update) ==
    /\ CurRev > 0
    /\ runsIndexer(update) => View \notin bg
    /\ IF runsIndexer(update) THEN IndexPass(View) ELSE UNCHANGED <<design, mapTable>>
    /\ bg' = IF startsBackground(update) THEN bg \cup { View } ELSE bg
    /\ lastQuery' = [ update |-> update, status |-> 200, rows |-> mapTable'[View] ]
    /\ UNCHANGED <<docs, nextSeq, redVars, stVars, lsVars, apiVars>>

QueryTrue == Query("true")
QueryFalse == Query("false")
QueryLazy == Query("lazy")

\* Query of a design document that does not exist: 404 "missing".
QueryMissing ==
    /\ CurRev = 0
    /\ lastQuery' = [ update |-> "true", status |-> 404, rows |-> {} ]
    /\ UNCHANGED <<docs, nextSeq, design, mapTable, bg, redVars, stVars, lsVars, apiVars>>

\* The background pass of the view v, which an update=lazy query started,
\* runs and ends.
BgIndexOf(v) ==
    /\ v \in bg
    /\ IndexPass(v)
    /\ bg' = bg \ { v }
    /\ lastQuery' = NoResult
    /\ UNCHANGED <<docs, nextSeq, redVars, stVars, lsVars, apiVars>>

BgIndex == \E v \in bg : BgIndexOf(v)

NextIndex ==
    \/ PutDoc
    \/ PutNewEditsFalse
    \/ DeleteDoc
    \/ PutDDoc
    \/ QueryTrue
    \/ QueryFalse
    \/ QueryLazy
    \/ QueryMissing
    \/ BgIndex

SpecIndex == InitIndex /\ [][NextIndex]_vars

\* Each goroutine an update=lazy query starts is scheduled and runs to its end.
SpecIndexFair == SpecIndex /\ \A v \in 1..MaxSeq : WF_vars(BgIndexOf(v))

(***************************************************************************)
(* Document store: reads by id (getCoreDoc) and removal of revisions       *)
(***************************************************************************)
\* The revision option left out: revision{}.IsZero()
ZeroRev == << 0, 0 >>

\* ORDER BY rev DESC, rev_id DESC LIMIT 1 over a non-empty set of rows
TopRow(S) == CHOOSE r \in S : \A o \in S : o = r \/ RevLess(o, r)

\* query_test.go getCoreDoc, without latest: the row the query selects, then
\* the switch on ErrNoRows and on "deleted && rev.IsZero()".
getCoreDoc(id, rev) ==
    LET found == IF rev = ZeroRev
                 THEN { r \in docs : r.id = id }
                 ELSE { r \in docs : r.id = id /\ << r.rev, r.rev_id >> = rev }
    IN IF found = {}
       THEN [ id |-> id, asked |-> rev, status |-> 404, rev |-> 0, rev_id |-> 0 ]
       ELSE LET r == TopRow(found)
            IN IF r.deleted /\ rev = ZeroRev
               THEN [ id |-> id, asked |-> rev, status |-> 404, rev |-> 0, rev_id |-> 0 ]
               ELSE [ id |-> id, asked |-> rev, status |-> 200,
                      rev |-> r.rev, rev_id |-> r.rev_id ]

\* query_test.go GetRev: the rev option parsed when given, then getCoreDoc.
GetRev ==
    \E id \in DocIDs :
      \E rev \in { ZeroRev } \cup { << r.rev, r.rev_id >> : r \in { d \in docs : d.id = id } } :
        /\ lastGet' = getCoreDoc(id, rev)
        /\ lastGet' # lastGet
        /\ UNCHANGED <<idxVars, assigned, redVars, lsVars, apiVars>>

\* ON DELETE CASCADE of the revs table: the revisions that go with the rows S.
RECURSIVE Descendants(_)
Descendants(S) ==
    LET more == S \cup { c \in docs : \E p \in S :
                            c.id = p.id /\ c.parent = << p.rev, p.rev_id >> }
    IN IF more = S THEN S ELSE Descendants(more)

\* seq INTEGER PRIMARY KEY: a row inserted without a seq gets one more than
\* the largest seq in the table, and 1 in an empty table.
nextRowid(tbl) ==
    IF tbl = {} THEN 1
    ELSE (CHOOSE s \in { r.seq : r \in tbl } : \A r \in tbl : r.seq <= s) + 1

\* A revision is removed from the revs table: its descendants and their rows
\* of the docs table go with it.
Purge ==
    \E r \in docs :
        /\ r.id \in DocIDs
        /\ docs' = docs \ Descendants({ r })
        /\ nextSeq' = nextRowid(docs')
        /\ lastQuery' = NoResult
        /\ lastGet' = NoGet
        /\ UNCHANGED <<design, mapTable, bg, assigned, redVars, lsVars, apiVars>>

NextStore ==
    \/ PutDoc
    \/ PutNewEditsFalse
    \/ DeleteDoc
    \/ GetRev
    \/ Purge

SpecStore == InitIndex /\ [][NextStore]_vars

\* ORDER BY rev DESC, rev_id DESC LIMIT 1 over rows that may tie: any of
\* the rows with the highest (rev, rev_id) may come first.
TopRows(S) == { r \in S : ~\E o \in S : RevLess(r, o) }

\* query_test.go getCoreDoc, case latest, the first SELECT: the descendants
\* of the given revision of id that are not deleted and are no parent_rev,
\* parent_rev_id of any row of the revs table.
latestOfRev(id, rev) ==
    { r \in Descendants({ d \in docs : d.id = id /\ << d.rev, d.rev_id >> = rev }) :
        /\ ~r.deleted
        /\ ~\E child \in docs : child.parent = << r.rev, r.rev_id >> }

\* query_test.go getCoreDoc, case latest, the second SELECT: the rows of the
\* revs table that are not deleted and have no child of their own id.
latestFallback(id) ==
    { r \in docs :
        /\ ~r.deleted
        /\ ~\E child \in docs : child.id = r.id /\ child.parent = << r.rev, r.rev_id >> }

\* query_test.go getCoreDoc with a rev and latest: the first row of the two
\* SELECTs (UNION ALL ... LIMIT 1), or 404 when there is none; every
\* response the query may give.
getCoreDocLatest(id, rev) ==
    LET first == IF latestOfRev(id, rev) # {} THEN TopRows(latestOfRev(id, rev))
                 ELSE TopRows(latestFallback(id))
    IN IF first = {}
       THEN { [ id |-> id, asked |-> rev, status |-> 404, rev |-> 0, rev_id |-> 0 ] }
       ELSE { [ id |-> id, asked |-> rev, status |-> 200, rev |-> r.rev, rev_id |-> r.rev_id ] :
                r \in first }

\* query_test.go GetRev with the options rev and latest=true.
GetRevLatest ==
    \E id \in DocIDs :
      \E d \in docs :
        \E resp \in getCoreDocLatest(id, << d.rev, d.rev_id >>) :
            /\ lastGet' = resp
            /\ lastGet' # lastGet
            /\ UNCHANGED <<idxVars, assigned, redVars, lsVars, apiVars>>

NextStoreLatest ==
    \/ PutDoc
    \/ PutNewEditsFalse
    \/ DeleteDoc
    \/ GetRevLatest

SpecStoreLatest == InitIndex /\ [][NextStoreLatest]_vars

(***************************************************************************)
(* The indexer step by step: the per-view lease, batches of one change,    *)
(* each committed together with last_seq, and cancellation                 *)
(***************************************************************************)
\* The change with the given seq describes the store as that change left it.
DocsAt(seq) == { d \in docs : d.seq <= seq }
LiveAt(id, seq) ==
    { r \in DocsAt(seq) :
        /\ r.id = id
        /\ ~r.deleted
        /\ ~\E child \in DocsAt(seq) :
              child.id = id /\ child.parent = << r.rev, r.rev_id >> }
EmissionsAt(id, seq) ==
    IF LiveAt(id, seq) = {} THEN {} ELSE mapFn(TopRow(LiveAt(id, seq)))

\* A lease that anyone gets at any time.
leaseFreeAlways(v) == TRUE
\* The lease of the view v is exclusive: free when no pass holds it.
leaseFree(v) == ~\E p \in passes : p.v = v

\* A pass that holds the lease of v for the requester who, no batch open.
Pass(v, who) == [ v |-> v, who |-> who, dirty |-> FALSE, tbl |-> {}, seq |-> 0 ]

\* update=true: the request takes the lease, or waits while it is held.
LeaseQueryTrue ==
    /\ CurRev > 0
    /\ leaseFree(View)
    /\ passes' = passes \cup { Pass(View, "true") }
    /\ lastQuery' = NoResult
    /\ UNCHANGED <<docs, nextSeq, design, mapTable, bg, interrupted, redVars, stVars, apiVars>>

\* update=false: returns what is indexed, takes no lease.
LeaseQueryFalse ==
    /\ CurRev > 0
    /\ lastQuery' = [ update |-> "false", status |-> 200, rows |-> mapTable[View] ]
    /\ lastQuery' # lastQuery
    /\ UNCHANGED <<docs, nextSeq, design, mapTable, bg, lsVars, redVars, stVars, apiVars>>

\* update=lazy: returns what is indexed, and starts a background pass when
\* none is running.
LeaseQueryLazy ==
    /\ CurRev > 0
    /\ passes' = IF leaseFree(View) THEN passes \cup { Pass(View, "lazy") } ELSE passes
    /\ lastQuery' = [ update |-> "lazy", status |-> 200, rows |-> mapTable[View] ]
    /\ UNCHANGED <<docs, nextSeq, design, mapTable, bg, interrupted, redVars, stVars, apiVars>>

\* The pass maps the next change, the one after last_seq, and replaces the
\* emissions of its document, inside the transaction of its batch.
StageChange ==
    \E p \in passes :
        /\ ~p.dirty
        /\ design[p.v] < nextSeq - 1
        /\ LET seq == design[p.v] + 1
               change == CHOOSE d \in docs : d.seq = seq
               tbl == IF change.id = DDoc THEN mapTable[p.v]
                      ELSE replaceEmissions(mapTable[p.v], change.id,
                                            EmissionsAt(change.id, seq))
           IN passes' = (passes \ { p }) \cup
                          { [ p EXCEPT !.dirty = TRUE, !.tbl = tbl, !.seq = seq ] }
        /\ lastQuery' = NoResult
        /\ UNCHANGED <<docs, nextSeq, design, mapTable, bg, interrupted, redVars, stVars, apiVars>>

\* The batch commits: its map rows and last_seq become visible together.
CommitBatch ==
    \E p \in passes :
        /\ p.dirty
        /\ mapTable' = [ mapTable EXCEPT ![p.v] = p.tbl ]
        /\ design' = [ design EXCEPT ![p.v] = p.seq ]
        /\ passes' = (passes \ { p }) \cup { Pass(p.v, p.who) }
        /\ lastQuery' = NoResult
        /\ UNCHANGED <<docs, nextSeq, bg, interrupted, redVars, stVars, apiVars>>

\* No change is left: the pass releases the lease, and an update=true
\* request is answered from the index.
FinishPass ==
    \E p \in passes :
        /\ ~p.dirty
        /\ design[p.v] = nextSeq - 1
        /\ passes' = passes \ { p }
        /\ lastQuery' = IF p.who = "true"
                        THEN [ update |-> "true", status |-> 200, rows |-> mapTable[p.v] ]
                        ELSE NoResult
        /\ UNCHANGED <<docs, nextSeq, design, mapTable, bg, interrupted, redVars, stVars, apiVars>>

\* A cancelled pass that leaves the rows of its open batch in the map table.
afterCancelPartial(p) == IF p.dirty THEN p.tbl ELSE mapTable[p.v]
\* The map table of the view after its pass was cancelled: the open batch is
\* rolled back.
afterCancel(p) == mapTable[p.v]

\* The context of the pass is cancelled, or the pass fails: the lease is
\* released and the request, if one waits, gets the error.
CancelPass ==
    \E p \in passes :
        /\ passes' = passes \ { p }
        /\ mapTable' = [ mapTable EXCEPT ![p.v] = afterCancel(p) ]
        /\ interrupted' = (interrupted \/ (p.dirty /\ p.who = "true" /\ p.v = View))
        /\ lastQuery' = IF p.who = "true"
                        THEN [ update |-> "true", status |-> 499, rows |-> {} ]
                        ELSE NoResult
        /\ UNCHANGED <<docs, nextSeq, design, bg, redVars, stVars, apiVars>>

\* The writers that run beside the passes: edits and deletions of one
\* document, and new revisions of the design document.
LeaseDoc == "a"
LeasePutDoc == \E val \in Values : PutDocOf(LeaseDoc, val)
LeaseDeleteDoc == DeleteDocOf(LeaseDoc)
LeasePutDDoc == CurRev < MaxViews /\ PutDDoc

NextLease ==
    \/ LeasePutDoc
    \/ LeaseDeleteDoc
    \/ LeasePutDDoc
    \/ LeaseQueryTrue
    \/ LeaseQueryFalse
    \/ LeaseQueryLazy
    \/ StageChange
    \/ CommitBatch
    \/ FinishPass
    \/ CancelPass

SpecLease == InitIndex /\ [][NextLease]_vars

(***************************************************************************)
(* Iterators: reduce.Rows (x/sqlite/reduce/reduce.go), the cancelable      *)
(* reader of the couchdb driver, and the rows of the kivik API (rows.go)   *)
(***************************************************************************)
Kinds == { "reduce", "reader", "rows" }

\* What an iterator may hold: reduce.Rows is a slice, whose reads never fail;
\* the other two read from a driver, whose read may fail (item 0).
ItemsOf(kind) == IF kind = "reduce" THEN Values ELSE Values \cup { 0 }
SeqsUpTo(S, n) == UNION { [1..k -> S] : k \in 0..n }

\* reduce.go Rows.ReduceNext and Rows.Next: io.EOF when len(*r) == 0, else
\* the first row is delivered and dropped.
RowsNext(rs) ==
    IF Len(rs) = 0 THEN [ result |-> "EOF", rows |-> rs ]
    ELSE [ result |-> "row", rows |-> Tail(rs) ]

\* reduce.go Rows.Close: *r = nil
RowsClose(rs) == << >>

\* A Close that fails on an iterator that is closed already.
RowsCloseErrTwice(state) == IF state = "open" THEN "nil" ELSE "iterator closed"
\* reduce.go Rows.Close: return nil
RowsCloseErr(state) == "nil"

\* A read of the cancelable reader, or Next and Err of kivik rows: the
\* sentinel once closed, the end (and the error that ended it) once done.
guardedNext(state, rs, err) ==
    IF state = "closed"
    THEN [ result |-> "iterator closed", rows |-> rs, state |-> state, err |-> err ]
    ELSE IF state = "done"
    THEN [ result |-> IF err = "" THEN "EOF" ELSE err, rows |-> rs, state |-> state, err |-> err ]
    ELSE IF Len(rs) = 0
    THEN [ result |-> "EOF", rows |-> rs, state |-> "done", err |-> err ]
    ELSE IF Head(rs) = 0
    THEN [ result |-> "read err", rows |-> << >>, state |-> "done", err |-> "read err" ]
    ELSE [ result |-> "row", rows |-> Tail(rs), state |-> state, err |-> err ]

InitIter ==
    /\ itKind \in Kinds
    /\ itRows \in SeqsUpTo(ItemsOf(itKind), MaxItems)
    /\ itState = "open"
    /\ itErr = ""
    /\ lastRead = NoCall
    /\ closedEarly = FALSE
    /\ closeCalls = 0
    /\ RedIdle
    /\ IdxIdle
    /\ StIdle
    /\ LsIdle
    /\ ClIdle
    /\ PlIdle
    /\ AtIdle
    /\ RdIdle
    /\ ScIdle
    /\ OrIdle
    /\ AuIdle

\* ReduceNext / Next of reduce.Rows, Read of the reader, Next of kivik rows
IterNext ==
    /\ IF itKind = "reduce"
       THEN LET n == RowsNext(itRows)
            IN /\ itRows' = n.rows
               /\ lastRead' = [ op |-> "next", result |-> n.result ]
               /\ UNCHANGED <<itState, itErr>>
       ELSE LET n == guardedNext(itState, itRows, itErr)
            IN /\ itRows' = n.rows
               /\ itState' = n.state
               /\ itErr' = n.err
               /\ lastRead' = [ op |-> "next", result |-> n.result ]
    /\ UNCHANGED <<itKind, closedEarly, closeCalls, redVars, idxVars, stVars, lsVars, clVars, plVars, atVars, rdVars, scVars, orVars, auVars>>

\* Close of the iterator
IterClose ==
    /\ closeCalls < MaxCloses
    /\ closeCalls' = closeCalls + 1
    /\ closedEarly' = (closedEarly \/ (itState = "open" /\ Len(itRows) > 0))
    /\ IF itKind = "reduce"
       THEN /\ itRows' = RowsClose(itRows)
            /\ itState' = "closed"
            /\ lastRead' = [ op |-> "close", result |-> RowsCloseErr(itState) ]
       ELSE /\ itRows' = IF itState = "open" THEN << >> ELSE itRows
            /\ itState' = IF itState = "open" THEN "closed" ELSE itState
            /\ lastRead' = [ op |-> "close", result |-> "nil" ]
    /\ UNCHANGED <<itKind, itErr, redVars, idxVars, stVars, lsVars, clVars, plVars, atVars, rdVars, scVars, orVars, auVars>>

NextIter == IterNext \/ IterClose

SpecIter == InitIter /\ [][NextIter]_vars

(***************************************************************************)
(* The Client of the kivik API, as its tests construct and call it         *)
(***************************************************************************)
ClientOps == { "Version", "AllDBs", "DBExists", "CreateDB", "DestroyDB", "DBsStats", "Ping" }

\* What the driver answers to a call that reaches it: success, or its error.
DriverAnswers == { [ status |-> 0, err |-> "" ], [ status |-> 500, err |-> "db error" ] }

\* A Client that never takes itself for closed.
closedErrNever(closed) == [ status |-> 0, err |-> "" ]
\* The error of a call on a Client whose closed field is set (none: err "").
closedErr(closed) ==
    IF closed THEN [ status |-> 503, err |-> "kivik: client closed" ]
    ELSE [ status |-> 0, err |-> "" ]

InitClient ==
    /\ clClosed \in BOOLEAN
    /\ driverCalls = 0
    /\ lastCall = NoAnswer
    /\ RedIdle
    /\ IdxIdle
    /\ StIdle
    /\ LsIdle
    /\ ItIdle
    /\ PlIdle
    /\ AtIdle
    /\ RdIdle
    /\ ScIdle
    /\ OrIdle
    /\ AuIdle

\* Version, AllDBs, DBExists, CreateDB, DestroyDB, DBsStats or Ping
ClientCall ==
    \E op \in ClientOps, answer \in DriverAnswers :
        /\ IF closedErr(clClosed).err # ""
           THEN /\ lastCall' = [ op |-> op, status |-> closedErr(clClosed).status,
                                 err |-> closedErr(clClosed).err ]
                /\ UNCHANGED driverCalls
           ELSE /\ driverCalls < MaxCalls
                /\ driverCalls' = driverCalls + 1
                /\ lastCall' = [ op |-> op, status |-> answer.status, err |-> answer.err ]
        /\ UNCHANGED <<clClosed, redVars, idxVars, stVars, lsVars, itVars, plVars, atVars, rdVars, scVars, orVars, auVars>>

\* Close: the Client is closed, and the error of the driver's Close, if it
\* has one, is returned.
ClientClose ==
    \E closeErr \in { "", "close err" } :
        /\ clClosed' = TRUE
        /\ lastCall' = [ op |-> "Close", status |-> 0, err |-> closeErr ]
        /\ UNCHANGED <<driverCalls, redVars, idxVars, stVars, lsVars, itVars, plVars, atVars, rdVars, scVars, orVars, auVars>>

NextClient == ClientCall \/ ClientClose

SpecClient == InitClient /\ [][NextClient]_vars

(***************************************************************************)
(* Reference semantics of a reduce, used to state the claims               *)
(***************************************************************************)
IsRaw(row) == row.ID # ""

\* What one unpartitioned reduce of the underlying data of the rows S gives:
\* a raw row counts 1 under _count and its value under _sum, a pre-reduced
\* row stands for its value.
RECURSIVE RefValue(_, _)
RefValue(input, name) ==
    IF input = <<>> THEN 0
    ELSE (IF IsRaw(Head(input)) /\ name = "_count" THEN 1 ELSE Head(input).Value)
         + RefValue(Tail(input), name)

Mixed(input) ==
    /\ \E i \in 1..Len(input) : IsRaw(input[i])
    /\ \E i \in 1..Len(input) : ~IsRaw(input[i])

\* The groups of the input at a level: maximal runs of equal truncated keys.
GroupOf(input, level, i) ==
    { j \in 1..Len(input) :
        truncateKey(input[j].Key, level) = truncateKey(input[i].Key, level) }

GroupStarts(input, level) ==
    { i \in 1..Len(input) : \A j \in GroupOf(input, level, i) : i <= j }

RECURSIVE Pick(_, _)
Pick(input, S) ==
    IF input = <<>> THEN <<>>
    ELSE (IF 1 \in S THEN << Head(input) >> ELSE <<>>)
         \o Pick(Tail(input), { j - 1 : j \in S \ {1} })

\* One row per group, in input order: the truncated key and the group's reduce.
Expected(input, name, level) ==
    LET starts == Pick([ i \in 1..Len(input) |-> i ], GroupStarts(input, level))
    IN [ g \in 1..Len(starts) |->
           [ Key |-> truncateKey(input[starts[g]].Key, level),
             Value |-> RefValue(Pick(input, GroupOf(input, level, starts[g])), name) ] ]

KeyValue(o) == [ i \in 1..Len(o) |-> [ Key |-> o[i].Key, Value |-> o[i].Value ] ]

\* reduce.go: Reduce, all passes
RECURSIVE Reduce(_, _, _)
Reduce(input, name, level) ==
    LET st == reducePass(input, name, level)
    IN IF needsRereduce(st.out, level) THEN Reduce(st.out, name, level) ELSE st.out

BatchKeys(c) == { c.keys[i][1] : i \in 1..Len(c.keys) }
BatchIDs(c) == { c.keys[i][2] : i \in 1..Len(c.keys) }
FnCalls == { i \in 1..Len(calls) : calls[i].via = "fn" }
PassThroughs == { i \in 1..Len(calls) : calls[i].via = "pass" }

(***************************************************************************)
(* Query of one view with options: the map function that may throw,        *)
(* validation of the options, range and direction of the scan, reduce and  *)
(* grouping, skip and limit                                                *)
(***************************************************************************)
\* The keys the documents emit: "a" < "b" < "c".  0 as startkey or endkey:
\* the option is not given; limit -1: no limit.
PlanKeys == 1..3
\* The ids of the documents, in collation order.
PlanIDs == << "a", "b", "c", "d" >>

\* The views: map is function(doc) { emit(doc.k, 1); } or, "throws",
\* function(doc) { emit(doc.k, 1); if (doc.k == "b") throw new Error("broken"); }
\* and reduce is absent or _count.
PlanViews == [ map : { "emit", "throws" }, reduce : { "", "_count" } ]
ThrowsOn == 2

\* The pairs emit has collected when the map function returns or throws.
mapEmitted(doc) == { [ id |-> doc.id, key |-> Scalar(doc.k), value |-> 1 ] }
mapThrew(view, doc) == view.map = "throws" /\ doc.k = ThrowsOn

\* A map invocation that keeps what was emitted before the exception.
planMapKeepsEmitted(view, doc) == mapEmitted(doc)
\* One invocation of the map function: no pairs when it throws.
planMap(view, doc) == IF mapThrew(view, doc) THEN {} ELSE mapEmitted(doc)

\* The indexer over the documents stored: the map rows and the log records.
planIndex(view, stored) == UNION { planMap(view, d) : d \in stored }
planLogs(view, stored) == { d.id : d \in { x \in stored : mapThrew(view, x) } }

hasReduce(view) == view.reduce # ""

\* Reduce is in effect only when reduce=true is given.
reduceOnExplicit(view, opts) == opts.reduce = "true"
\* reduce: forced on or off, default true iff the view has a reducer
reduceOn(view, opts) ==
    IF opts.reduce = "unset" THEN hasReduce(view) ELSE opts.reduce = "true"

\* Validation of the options: the error of the query ("": none).
validate(view, opts) ==
    IF ~hasReduce(view) /\ opts.reduce = "true"
    THEN "reduce is invalid for map-only views"
    ELSE IF ~hasReduce(view) /\ opts.group
    THEN "group is invalid for map-only views"
    ELSE IF ~hasReduce(view) /\ opts.group_level # "unset"
    THEN "group_level is invalid for map-only views"
    ELSE IF reduceOn(view, opts) /\ opts.include_docs
    THEN "include_docs is invalid for reduce"
    ELSE IF reduceOn(view, opts) /\ opts.conflicts
    THEN "conflicts is invalid for reduce"
    ELSE ""

\* The map table is ordered by (key, doc_id).
RowLess(x, y) == x.key.s < y.key.s \/ (x.key.s = y.key.s /\ x.id < y.id)

RECURSIVE scanAsc(_)
scanAsc(S) ==
    IF S = {} THEN <<>>
    ELSE LET m == CHOOSE r \in S : \A o \in S : o = r \/ RowLess(r, o)
         IN << m >> \o scanAsc(S \ { m })

Reverse(s) == [ i \in 1..Len(s) |-> s[Len(s) + 1 - i] ]

\* A descending scan that keeps the ascending meaning of startkey and endkey.
inRangeUnswapped(opts, k) ==
    /\ opts.startkey = 0 \/ k >= opts.startkey
    /\ opts.endkey = 0 \/ k < opts.endkey \/ (opts.inclusive_end /\ k = opts.endkey)

\* startkey / endkey / inclusive_end, in the direction of the scan
inRange(opts, k) ==
    IF opts.descending
    THEN /\ opts.startkey = 0 \/ k <= opts.startkey
         /\ opts.endkey = 0 \/ k > opts.endkey \/ (opts.inclusive_end /\ k = opts.endkey)
    ELSE /\ opts.startkey = 0 \/ k >= opts.startkey
         /\ opts.endkey = 0 \/ k < opts.endkey \/ (opts.inclusive_end /\ k = opts.endkey)

\* The range scan of the map table, in the direction of the query
scanRange(tbl, opts) ==
    LET asc == scanAsc({ r \in tbl : inRange(opts, r.key.s) })
    IN IF opts.descending THEN Reverse(asc) ELSE asc

\* The rows of a scan as the reduce engine takes them: raw rows.
reduceRows(scan) ==
    [ i \in 1..Len(scan) |->
        [ First |-> i, Last |-> i, ID |-> PlanIDs[scan[i].id],
          Key |-> scan[i].key, Value |-> scan[i].value ] ]

\* group: by the full key; group_level N: by N elements; else no grouping
planLevel(opts) ==
    IF opts.group THEN -1 ELSE IF opts.group_level = "1" THEN 1 ELSE 0

\* The scan, reduced by the reduce engine when reduce is in effect.
planReduce(scan, view, opts) ==
    IF ~reduceOn(view, opts) THEN scan
    ELSE LET o == Reduce(reduceRows(scan), view.reduce, planLevel(opts))
         IN [ i \in 1..Len(o) |-> [ id |-> 0, key |-> o[i].Key, value |-> o[i].Value ] ]

\* skip and limit applied to the map rows scanned, before they are reduced.
pageBeforeReduce(tbl, view, opts) ==
    LET scan == scanRange(tbl, opts)
        upto == IF opts.limit < 0 \/ opts.skip + opts.limit > Len(scan)
                THEN Len(scan) ELSE opts.skip + opts.limit
    IN planReduce(SubSeq(scan, opts.skip + 1, upto), view, opts)
\* skip and limit: applied after ordering and after reduce / group
page(tbl, view, opts) ==
    LET rs == planReduce(scanRange(tbl, opts), view, opts)
        upto == IF opts.limit < 0 \/ opts.skip + opts.limit > Len(rs)
                THEN Len(rs) ELSE opts.skip + opts.limit
    IN SubSeq(rs, opts.skip + 1, upto)

\* The option sets a client queries with: combinations of reduce, grouping,
\* include_docs and conflicts; ranges in both directions; pages.
ValidationOpts ==
    { [ DefaultOpts EXCEPT !.reduce = r, !.group = g, !.group_level = l,
                           !.include_docs = i, !.conflicts = c ] :
        r \in { "unset", "true", "false" }, g \in BOOLEAN, l \in { "unset", "0", "1" },
        i \in BOOLEAN, c \in BOOLEAN }
RangeOpts ==
    { [ DefaultOpts EXCEPT !.reduce = r, !.group = g, !.descending = d, !.startkey = sk,
                           !.endkey = ek, !.inclusive_end = ie ] :
        r \in { "unset", "false" }, g \in BOOLEAN, d \in BOOLEAN,
        sk \in { 0 } \cup PlanKeys, ek \in { 0 } \cup PlanKeys, ie \in BOOLEAN }
PageOpts(n) ==
    { [ DefaultOpts EXCEPT !.reduce = r, !.group = g, !.descending = d,
                           !.skip = sk, !.limit = lim ] :
        r \in { "unset", "false" }, g \in BOOLEAN, d \in BOOLEAN,
        sk \in 0..n, lim \in { -1 } \cup 1..n }
\* Grouping options with reduce=false on a view that has a reducer are not
\* a case the validation is specified for: no client of the model uses them.
PlanOptions(view) ==
    { o \in ValidationOpts \cup RangeOpts \cup PageOpts(MaxPage) :
        ~(hasReduce(view) /\ o.reduce = "false" /\ (o.group \/ o.group_level # "unset")) }

InitPlan ==
    /\ qView \in PlanViews
    /\ qOpts \in PlanOptions(qView)
    /\ qDocs = {}
    /\ qIndex = {}
    /\ qLogs = {}
    /\ lastPlan = NoPlan
    /\ RedIdle
    /\ IdxIdle
    /\ StIdle
    /\ LsIdle
    /\ ItIdle
    /\ ClIdle
    /\ AtIdle
    /\ RdIdle
    /\ ScIdle
    /\ OrIdle
    /\ AuIdle

\* Put of a new document, the next id, whose field k is one of the keys.
PlanPut ==
    \E k \in PlanKeys :
        /\ Cardinality(qDocs) < MaxPlanDocs
        /\ qDocs' = qDocs \cup { [ id |-> Cardinality(qDocs) + 1, k |-> k ] }
        /\ lastPlan' = NoPlan
        /\ UNCHANGED <<qView, qOpts, qIndex, qLogs, redVars, idxVars, stVars, lsVars, itVars, clVars, atVars, rdVars, scVars, orVars, auVars>>

\* Query of the view: the options are validated, the indexer runs (update
\* is true by default), and the response is made of the index.
PlanQuery ==
    /\ IF validate(qView, qOpts) # ""
       THEN /\ lastPlan' = [ status |-> 400, err |-> validate(qView, qOpts), rows |-> <<>> ]
            /\ UNCHANGED <<qIndex, qLogs>>
       ELSE /\ qIndex' = planIndex(qView, qDocs)
            /\ qLogs' = qLogs \cup planLogs(qView, qDocs)
            /\ lastPlan' = [ status |-> 200, err |-> "", rows |-> page(qIndex', qView, qOpts) ]
    /\ UNCHANGED <<qView, qOpts, qDocs, redVars, idxVars, stVars, lsVars, itVars, clVars, atVars, rdVars, scVars, orVars, auVars>>

NextPlan == PlanPut \/ PlanQuery

SpecPlan == InitPlan /\ [][NextPlan]_vars

(***************************************************************************)
(* One document with attachments: Put with _attachments, Put with          *)
(* new_edits=false, and DeleteAttachment                                   *)
(***************************************************************************)
Files == { "foo.txt", "bar.txt" }

\* A row of the revs table; parent << 0, 0 >>: none.
AttRev(rev, revID, parent) == [ rev |-> rev, rev_id |-> revID, parent |-> parent ]
RevOf(r) == << r.rev, r.rev_id >>

\* schema.go: the leaves view, on the revisions of the document
AttLeaves == { r \in atRevs : ~\E child \in atRevs : child.parent = RevOf(r) }

\* The attachments a revision references through the bridge table.
AttachmentsOf(rev) == { b.filename : b \in { x \in atBridge : x.rev = rev } }
BridgeRows(rev, names) == { [ rev |-> rev, filename |-> f ] : f \in names }

\* The rev id of a new revision is the digest of its content; the model
\* gives every new revision an id of its own.
FreshRevID == Cardinality(atRevs) + 1

\* A check that takes any stored revision for current.
isCurrentAnyRev(rev) == \E r \in atRevs : RevOf(r) = rev
\* The rev given addresses a current leaf of the document.
isCurrent(rev) == \E r \in AttLeaves : RevOf(r) = rev

\* A deletion that takes every attachment off the new revision.
keptAttachmentsNone(names, filename) == {}
\* The attachments the new revision references: those of rev but filename.
keptAttachments(names, filename) == names \ { filename }

InitAtt ==
    /\ atRevs = {}
    /\ atBridge = {}
    /\ lastDel = NoDel
    /\ RedIdle
    /\ IdxIdle
    /\ StIdle
    /\ LsIdle
    /\ ItIdle
    /\ ClIdle
    /\ PlIdle
    /\ RdIdle
    /\ ScIdle
    /\ OrIdle
    /\ AuIdle

\* Put of the document with the given _attachments: its first revision, or
\* a new edit of the leaf whose rev is given.
AttPut ==
    \E names \in SUBSET Files :
      \E parent \in IF atRevs = {} THEN { << 0, 0 >> } ELSE { RevOf(r) : r \in AttLeaves } :
        /\ Cardinality(atRevs) < MaxAttRevs
        /\ LET new == AttRev(parent[1] + 1, FreshRevID, parent)
           IN /\ atRevs' = atRevs \cup { new }
              /\ atBridge' = atBridge \cup BridgeRows(RevOf(new), names)
        /\ lastDel' = NoDel
        /\ UNCHANGED <<redVars, idxVars, stVars, lsVars, itVars, clVars, plVars, rdVars, scVars, orVars, auVars>>

\* Put with new_edits=false: a revision without attachments is stored under
\* a revision that has a child already, which makes a conflict.
AttPutConflict ==
    \E p \in atRevs \ AttLeaves :
        /\ Cardinality(atRevs) < MaxAttRevs
        /\ atRevs' = atRevs \cup { AttRev(p.rev + 1, FreshRevID, RevOf(p)) }
        /\ lastDel' = NoDel
        /\ UNCHANGED <<atBridge, redVars, idxVars, stVars, lsVars, itVars, clVars, plVars, rdVars, scVars, orVars, auVars>>

\* The revs a client may give: none, a rev that was never stored, or the rev
\* of a stored revision.
AskedRevs == { << 0, 0 >>, << 1, 0 >> } \cup { RevOf(r) : r \in atRevs }

\* DeleteAttachment(docID, filename, rev)
DeleteAttachment ==
    \E asked \in AskedRevs, filename \in Files :
        /\ atRevs = {} => asked # << 0, 0 >>
        /\ IF atRevs = {}
           THEN /\ lastDel' = [ status |-> 404, err |-> "document not found",
                                asked |-> asked, filename |-> filename ]
                /\ UNCHANGED <<atRevs, atBridge>>
           ELSE IF ~isCurrent(asked)
           THEN /\ lastDel' = [ status |-> 409, err |-> "document update conflict",
                                asked |-> asked, filename |-> filename ]
                /\ UNCHANGED <<atRevs, atBridge>>
           ELSE IF filename \notin AttachmentsOf(asked)
           THEN /\ lastDel' = [ status |-> 404, err |-> "attachment not found",
                                asked |-> asked, filename |-> filename ]
                /\ UNCHANGED <<atRevs, atBridge>>
           ELSE /\ Cardinality(atRevs) < MaxAttRevs
                /\ LET new == AttRev(asked[1] + 1, FreshRevID, asked)
                   IN /\ atRevs' = atRevs \cup { new }
                      /\ atBridge' = atBridge \cup
                            BridgeRows(RevOf(new),
                                       keptAttachments(AttachmentsOf(asked), filename))
                /\ lastDel' = [ status |-> 200, err |-> "",
                                asked |-> asked, filename |-> filename ]
        /\ UNCHANGED <<redVars, idxVars, stVars, lsVars, itVars, clVars, plVars, rdVars, scVars, orVars, auVars>>

NextAtt == AttPut \/ AttPutConflict \/ DeleteAttachment

SpecAtt == InitAtt /\ [][NextAtt]_vars

(***************************************************************************)
(* The cancelable reader of the couchdb driver: a reader and a context     *)
(***************************************************************************)
\* An item of the underlying reader whose read blocks for a while before
\* the reader goes on to its next item (testy.DelayReader).
Delay == 9
SrcItems == Values \cup { 0, Delay }
CtxErrs == { "context canceled", "context deadline exceeded" }

\* A reader that does not look at its context.
ctxGateIgnored(state, cerr) == ""
\* The error that ends a Read of an open reader whose context is done.
ctxGate(state, cerr) == IF state = "open" THEN cerr ELSE ""

InitReader ==
    /\ rdSrc \in SeqsUpTo(SrcItems, MaxSrc)
    /\ rdCtx = CtxLive
    /\ rdState = "open"
    /\ rdErr = ""
    /\ rdBlocked = FALSE
    /\ rdOut = <<>>
    /\ lastRd = NoCall
    /\ RedIdle
    /\ IdxIdle
    /\ StIdle
    /\ LsIdle
    /\ ItIdle
    /\ ClIdle
    /\ PlIdle
    /\ AtIdle
    /\ ScIdle
    /\ OrIdle
    /\ AuIdle

\* What a Read returns once the underlying read has returned, or without an
\* underlying read when the reader is closed or done.
RdDeliver(src) ==
    LET n == guardedNext(rdState, src, rdErr)
    IN /\ rdSrc' = n.rows
       /\ rdState' = n.state
       /\ rdErr' = n.err
       /\ rdOut' = IF n.result = "row" THEN Append(rdOut, Head(src)) ELSE rdOut
       /\ lastRd' = [ op |-> "read", result |-> n.result ]

\* What a Read returns when the context is done: the error of the context.
RdFail ==
    /\ rdState' = "done"
    /\ rdErr' = rdCtx.err
    /\ lastRd' = [ op |-> "read", result |-> rdCtx.err ]
    /\ UNCHANGED <<rdSrc, rdOut>>

\* The caller calls Read: it returns at once, or its underlying read blocks.
RdRead ==
    /\ ~rdBlocked
    /\ IF ctxGate(rdState, rdCtx.err) # ""
       THEN RdFail /\ UNCHANGED rdBlocked
       ELSE IF rdState = "open" /\ rdSrc # <<>> /\ Head(rdSrc) = Delay
       THEN /\ rdBlocked' = TRUE
            /\ lastRd' = [ op |-> "read", result |-> "pending" ]
            /\ UNCHANGED <<rdSrc, rdState, rdErr, rdOut>>
       ELSE RdDeliver(rdSrc) /\ UNCHANGED rdBlocked
    /\ UNCHANGED <<rdCtx, redVars, idxVars, stVars, lsVars, itVars, clVars, plVars, atVars, scVars, orVars, auVars>>

\* The delay of the underlying reader is over while the context is not done:
\* the underlying read goes on to the next item.
RdDelayOver ==
    /\ rdBlocked
    /\ ctxGate(rdState, rdCtx.err) = ""
    /\ IF Len(rdSrc) > 1 /\ rdSrc[2] = Delay
       THEN /\ rdSrc' = Tail(rdSrc)
            /\ UNCHANGED <<rdState, rdErr, rdBlocked, rdOut, lastRd>>
       ELSE RdDeliver(Tail(rdSrc)) /\ rdBlocked' = FALSE
    /\ UNCHANGED <<rdCtx, redVars, idxVars, stVars, lsVars, itVars, clVars, plVars, atVars, scVars, orVars, auVars>>

\* The context is done while the underlying read is blocked: the Read
\* returns the error of the context.
RdAbort ==
    /\ rdBlocked
    /\ ctxGate(rdState, rdCtx.err) # ""
    /\ RdFail
    /\ rdBlocked' = FALSE
    /\ UNCHANGED <<rdCtx, redVars, idxVars, stVars, lsVars, itVars, clVars, plVars, atVars, scVars, orVars, auVars>>

\* cancel() is called, or the deadline of the context passes.
RdCtxDone ==
    \E e \in CtxErrs :
        /\ rdCtx.err = ""
        /\ rdCtx' = [ err |-> e, at |-> Len(rdOut) ]
        /\ UNCHANGED <<rdSrc, rdState, rdErr, rdBlocked, rdOut, lastRd>>
        /\ UNCHANGED <<redVars, idxVars, stVars, lsVars, itVars, clVars, plVars, atVars, scVars, orVars, auVars>>

\* Close of the reader, between two reads.
RdClose ==
    /\ ~rdBlocked
    /\ rdState = "open"
    /\ rdState' = "closed"
    /\ lastRd' = [ op |-> "close", result |-> "nil" ]
    /\ UNCHANGED <<rdSrc, rdCtx, rdErr, rdBlocked, rdOut>>
    /\ UNCHANGED <<redVars, idxVars, stVars, lsVars, itVars, clVars, plVars, atVars, scVars, orVars, auVars>>

NextReader == RdRead \/ RdDelayOver \/ RdAbort \/ RdCtxDone \/ RdClose

SpecReader == InitReader /\ [][NextReader]_vars

(***************************************************************************)
(* ScanAllDocs of the rows of the kivik API (rows.go)                      *)
(***************************************************************************)
\* A row that carries an error (driver.Row.Error): ScanDoc of it fails.
BadRow == 8
ScanItems == ItemsOf("rows") \cup { BadRow }

\* What dest may be: a pointer to a slice, to an array (of length 0 too),
\* to something else; a nil pointer; not a pointer.
Dests ==
    { [ kind |-> "slice", elems |-> e ] : e \in { <<>>, << 2 >> } }
    \cup { [ kind |-> "array", elems |-> [ i \in 1..n |-> 0 ] ] : n \in 0..MaxArray }
    \cup { [ kind |-> k, elems |-> <<>> ] : k \in { "other", "nilptr", "nonptr" } }

\* rows.ScanDoc into a new value of the element type: the error of the row,
\* the value left zero; or the document.
ScanDoc(item) ==
    IF item = BadRow THEN [ err |-> "row error", val |-> 0 ]
    ELSE [ err |-> "", val |-> item ]

\* A ScanAllDocs that takes any dest.
destErrNever(d) == ""
\* rows.ScanAllDocs, the checks of dest before the loop
destErr(d) ==
    IF d.kind = "nonptr" THEN "must pass a pointer to ScanAllDocs"
    ELSE IF d.kind = "nilptr" THEN "nil pointer passed to ScanAllDocs"
    ELSE IF d.kind = "array" /\ Len(d.elems) = 0 THEN "0-length array passed to ScanAllDocs"
    ELSE IF d.kind \notin { "array", "slice" } THEN "dest must be a pointer to a slice or array"
    ELSE ""

\* rows.ScanAllDocs, the loop: for i := 0; r.Next(); i++
RECURSIVE ScanLoop(_, _, _, _, _, _)
ScanLoop(state, rs, err, limit, elems, i) ==
    LET n == guardedNext(state, rs, err)
        after == [ state |-> n.state, rows |-> n.rows, err |-> n.err, elems |-> elems ]
    IN IF n.result # "row" THEN after
       ELSE IF limit > 0 /\ i >= limit THEN after
       ELSE LET v == ScanDoc(Head(rs))
            IN ScanLoop(n.state, n.rows, n.err, limit,
                        IF limit > 0 THEN [ elems EXCEPT ![i + 1] = v.val ]
                        ELSE Append(elems, v.val),
                        i + 1)

InitScan ==
    /\ itKind = "rows"
    /\ itRows \in SeqsUpTo(ScanItems, MaxItems)
    /\ itState = "open"
    /\ itErr = ""
    /\ lastRead = NoCall
    /\ closedEarly = FALSE
    /\ closeCalls = 0
    /\ scDest \in Dests
    /\ scRowsErr \in { "", "rows err" }
    /\ lastScan = NoScan
    /\ RedIdle
    /\ IdxIdle
    /\ StIdle
    /\ LsIdle
    /\ ClIdle
    /\ PlIdle
    /\ AtIdle
    /\ RdIdle
    /\ OrIdle
    /\ AuIdle

\* rows.ScanAllDocs, the deferred Close included
ScanAllDocs ==
    /\ lastScan = NoScan
    /\ closeCalls < MaxCloses
    /\ LET e == IF scRowsErr # "" THEN scRowsErr ELSE destErr(scDest)
           limit == IF scDest.kind = "array" THEN Len(scDest.elems) ELSE 0
           l == IF e # ""
                THEN [ state |-> itState, rows |-> itRows, err |-> itErr, elems |-> scDest.elems ]
                ELSE ScanLoop(itState, itRows, itErr, limit, scDest.elems, 0)
       IN /\ scDest' = [ scDest EXCEPT !.elems = l.elems ]
          /\ itRows' = IF l.state = "open" THEN << >> ELSE l.rows
          /\ itState' = IF l.state = "open" THEN "closed" ELSE l.state
          /\ itErr' = l.err
          /\ closedEarly' = (closedEarly \/ (l.state = "open" /\ Len(l.rows) > 0))
          /\ closeCalls' = closeCalls + 1
          /\ lastRead' = [ op |-> "close", result |-> "nil" ]
          /\ lastScan' = [ result |-> IF e # "" THEN e ELSE "nil", rows |-> itRows, state |-> itState ]
    /\ UNCHANGED <<itKind, scRowsErr, redVars, idxVars, stVars, lsVars, clVars, plVars, atVars, rdVars, orVars, auVars>>

NextScan == IterNext \/ IterClose \/ ScanAllDocs

SpecScan == InitScan /\ [][NextScan]_vars

(***************************************************************************)
(* OpenRevs of the sqlite driver and its iterator openRevsRows             *)
(***************************************************************************)
\* A revision of the result set: asked for and not stored ("missing"), or
\* stored, deleted or not, with its attachments.
RevKinds ==
    { [ kind |-> "missing", atts |-> 0 ] }
    \cup { [ kind |-> k, atts |-> n ] : k \in { "live", "deleted" }, n \in 0..MaxAtts }

\* The rows the query gives for the i-th revision, whose rev is i: one row,
\* or one per attachment, the first of them carrying rev, deleted and doc
\* (CASE WHEN row_number = 1); deleted is NULL when the revision has no row
\* in the docs table.
SqlRowsOf(i, r) ==
    IF r.atts = 0
    THEN << [ rev |-> i, deleted |-> IF r.kind = "missing" THEN "null" ELSE r.kind,
              count |-> 0, filename |-> 0 ] >>
    ELSE [ j \in 1..r.atts |->
             [ rev |-> IF j = 1 THEN i ELSE 0,
               deleted |-> IF j = 1 THEN r.kind ELSE "null",
               count |-> r.atts, filename |-> j ] ]

RECURSIVE SqlRows(_, _)
SqlRows(set, i) ==
    IF i > Len(set) THEN <<>> ELSE SqlRowsOf(i, set[i]) \o SqlRows(set, i + 1)

\* A driver.Row nothing was written to, and the zero fullDoc.
NoDoc == [ rev |-> 0, deleted |-> "null", atts |-> {} ]
ZeroRow == [ rev |-> 0, err |-> 0, doc |-> NoDoc ]

\* A Next that advances the cursor whatever pre says.
advancesAlways(pre) == TRUE
\* openRevsRows.Next: "!r.pre": the cursor is advanced unless OpenRevs has
\* fetched the row already.
advances(pre) == ~pre

\* openRevsRows.Next on an open sql.Rows: the loop, with the row it fills
\* and the local doc.
RECURSIVE openRevsNext(_, _, _, _, _)
openRevsNext(pre, cur, rest, row, doc) ==
    IF advances(pre) /\ rest = <<>>
    THEN [ result |-> "EOF", row |-> row, cur |-> NoRow, rest |-> rest ]
    ELSE LET c == IF advances(pre) THEN Head(rest) ELSE cur
             rs == IF advances(pre) THEN Tail(rest) ELSE rest
             row1 == IF c.rev # 0 THEN [ row EXCEPT !.rev = c.rev ] ELSE row
             doc1 == IF c.rev # 0 THEN [ rev |-> c.rev, deleted |-> c.deleted, atts |-> {} ]
                     ELSE doc
             doc2 == IF c.filename # 0 THEN [ doc1 EXCEPT !.atts = @ \cup { c.filename } ]
                     ELSE doc1
         IN IF c.rev # 0 /\ c.deleted = "null"
            THEN [ result |-> "row", row |-> [ row1 EXCEPT !.err = 404 ], cur |-> c, rest |-> rs ]
            ELSE IF c.count = Cardinality(doc2.atts)
            THEN [ result |-> "row", row |-> [ row1 EXCEPT !.doc = doc2 ], cur |-> c, rest |-> rs ]
            ELSE openRevsNext(FALSE, c, rs, row1, doc2)

InitOpenRevs ==
    /\ orSet \in SeqsUpTo(RevKinds, MaxOpenRevs)
    /\ orStatus = "none"
    /\ orCur = NoRow
    /\ orRest = <<>>
    /\ orPre = FALSE
    /\ orGot = <<>>
    /\ lastOR = NoCall
    /\ RedIdle
    /\ IdxIdle
    /\ StIdle
    /\ LsIdle
    /\ ItIdle
    /\ ClIdle
    /\ PlIdle
    /\ AtIdle
    /\ RdIdle
    /\ ScIdle
    /\ AuIdle

\* OpenRevs: the query, and the first rows.Next() that tells an empty result.
OpenRevs ==
    /\ orStatus = "none"
    /\ LET sql == SqlRows(orSet, 1)
       IN IF sql = <<>>
          THEN /\ orStatus' = "404"
               /\ lastOR' = [ op |-> "OpenRevs", result |-> "missing" ]
               /\ UNCHANGED <<orCur, orRest, orPre>>
          ELSE /\ orStatus' = "iter"
               /\ orCur' = Head(sql)
               /\ orRest' = Tail(sql)
               /\ orPre' = TRUE
               /\ lastOR' = [ op |-> "OpenRevs", result |-> "nil" ]
    /\ UNCHANGED <<orSet, orGot, redVars, idxVars, stVars, lsVars, itVars, clVars, plVars, atVars, rdVars, scVars, auVars>>

\* openRevsRows.Next, called with the driver.Row of the call before (rows.go
\* hands the iterator one driver.Row for all calls).  On a closed sql.Rows
\* rows.Next() is false and rows.Scan fails.
OpenRevsNext ==
    /\ orStatus \in { "iter", "closed" }
    /\ LET row == IF orGot = <<>> THEN ZeroRow ELSE orGot[Len(orGot)]
       IN IF orStatus = "closed"
          THEN /\ lastOR' = [ op |-> "next", result |-> IF orPre THEN "scan err" ELSE "EOF" ]
               /\ orPre' = FALSE
               /\ UNCHANGED <<orCur, orRest, orGot>>
          ELSE LET n == openRevsNext(orPre, orCur, orRest, row, NoDoc)
               IN /\ lastOR' = [ op |-> "next", result |-> n.result ]
                  /\ orPre' = FALSE
                  /\ orCur' = n.cur
                  /\ orRest' = n.rest
                  /\ orGot' = IF n.result = "row" THEN Append(orGot, n.row) ELSE orGot
    /\ UNCHANGED <<orSet, orStatus, redVars, idxVars, stVars, lsVars, itVars, clVars, plVars, atVars, rdVars, scVars, auVars>>

\* openRevsRows.Close: r.rows.Close()
OpenRevsClose ==
    /\ orStatus = "iter"
    /\ orStatus' = "closed"
    /\ orCur' = NoRow
    /\ orRest' = <<>>
    /\ lastOR' = [ op |-> "close", result |-> "nil" ]
    /\ UNCHANGED <<orSet, orPre, orGot, redVars, idxVars, stVars, lsVars, itVars, clVars, plVars, atVars, rdVars, scVars, auVars>>

NextOpenRevs == OpenRevs \/ OpenRevsNext \/ OpenRevsClose

SpecOpenRevs == InitOpenRevs /\ [][NextOpenRevs]_vars

(***************************************************************************)
(* The server: access checks of a database and the auth middleware         *)
(***************************************************************************)
RoleAdmin == "_admin"
UserNames == { "u", "v" }
RoleNames == { RoleAdmin, "r", "s" }
User(name, roles) == [ nil |-> FALSE, name |-> name, roles |-> roles ]
Users == { Nobody } \cup { User(n, rs) : n \in UserNames, rs \in SUBSET RoleNames }
Securities ==
    [ mNames : SUBSET UserNames, mRoles : SUBSET RoleNames,
      aNames : SUBSET UserNames, aRoles : SUBSET RoleNames ]

\* auth.UserContext.HasRole
HasRole(user, role) == role \in user.roles

\* A membership check that does not look at the admins of the database.
validateDBMembershipMembersOnly(user, security) ==
    IF security.mNames = {} /\ security.mRoles = {} THEN 0
    ELSE IF user.nil THEN 401
    ELSE IF user.name \in security.mNames THEN 0
    ELSE IF \E role \in security.mRoles : HasRole(user, role) THEN 0
    ELSE 403
\* validateDBMembership: 0 for nil, or the status of the error
validateDBMembership(user, security) ==
    IF security.mNames = {} /\ security.mRoles = {} THEN 0
    ELSE IF user.nil THEN 401
    ELSE IF user.name \in security.mNames THEN 0
    ELSE IF \E role \in security.mRoles : HasRole(user, role) THEN 0
    ELSE IF user.name \in security.aNames THEN 0
    ELSE IF \E role \in security.aRoles : HasRole(user, role) THEN 0
    ELSE IF HasRole(user, RoleAdmin) THEN 0
    ELSE 403

\* An admin check that does not look at the roles of the admins.
validateDBAdminNamesOnly(user, security) ==
    IF user.nil THEN 401
    ELSE IF user.name \in security.aNames THEN 0
    ELSE IF HasRole(user, RoleAdmin) THEN 0
    ELSE 403
\* validateDBAdmin: 0 for nil, or the status of the error
validateDBAdmin(user, security) ==
    IF user.nil THEN 401
    ELSE IF user.name \in security.aNames THEN 0
    ELSE IF HasRole(user, RoleAdmin) THEN 0
    ELSE IF \E role \in security.aRoles : HasRole(user, role) THEN 0
    ELSE 403

InitAccess ==
    /\ auUser \in Users
    /\ auSec \in Securities
    /\ auFuncs = <<>>
    /\ lastAuth = NoAuth
    /\ RedIdle
    /\ IdxIdle
    /\ StIdle
    /\ LsIdle
    /\ ItIdle
    /\ ClIdle
    /\ PlIdle
    /\ AtIdle
    /\ RdIdle
    /\ ScIdle
    /\ OrIdle

\* A check of the request's user against the security object of the
\* database; the next handler runs when the check returns nil.
Checked(op, status) ==
    /\ lastAuth' = [ op |-> op, status |-> status, next |-> status = 0,
                     user |-> auUser, consulted |-> 0 ]
    /\ UNCHANGED <<auUser, auSec, auFuncs>>
    /\ UNCHANGED <<redVars, idxVars, stVars, lsVars, itVars, clVars, plVars, atVars, rdVars, scVars, orVars>>

\* dbMembershipRequired, the security object fetched
DbMembershipRequired == Checked("member", validateDBMembership(auUser, auSec))

\* dbAdminRequired, the security object fetched
DbAdminRequired == Checked("admin", validateDBAdmin(auUser, auSec))

NextAccess == DbMembershipRequired \/ DbAdminRequired

SpecAccess == InitAccess /\ [][NextAccess]_vars

\* What an auth function does with the request: it returns an error or not,
\* a user context or nil, and has written to the response or not.
AuthOutcomes ==
    [ err : BOOLEAN, done : BOOLEAN,
      user : { Nobody, User("u", {}), User("v", { RoleAdmin }) } ]

\* The status standing for the error an auth function returned.
AuthFuncErr == 500

\* A middleware that does not notice a written response.
wroteNever(f) == FALSE
\* authMiddleware: "if dw.done"
wrote(f) == f.done

\* authMiddleware, the loop over s.authFuncs from the i-th on
RECURSIVE authLoop(_, _)
authLoop(funcs, i) ==
    IF i > Len(funcs)
    THEN [ status |-> 0, next |-> TRUE, user |-> Nobody, consulted |-> Len(funcs) ]
    ELSE IF funcs[i].err
    THEN [ status |-> AuthFuncErr, next |-> FALSE, user |-> Nobody, consulted |-> i ]
    ELSE IF wrote(funcs[i])
    THEN [ status |-> 0, next |-> FALSE, user |-> Nobody, consulted |-> i ]
    ELSE IF ~funcs[i].user.nil
    THEN [ status |-> 0, next |-> TRUE, user |-> funcs[i].user, consulted |-> i ]
    ELSE authLoop(funcs, i + 1)

\* authMiddleware; the next handler returns nil
authMiddleware(funcs) ==
    IF Len(funcs) = 0
    THEN [ status |-> 0, next |-> TRUE, user |-> User("admin", { RoleAdmin }), consulted |-> 0 ]
    ELSE authLoop(funcs, 1)

InitAuth ==
    /\ auUser = Nobody
    /\ auSec = NoSecurity
    /\ auFuncs \in SeqsUpTo(AuthOutcomes, MaxFuncs)
    /\ lastAuth = NoAuth
    /\ RedIdle
    /\ IdxIdle
    /\ StIdle
    /\ LsIdle
    /\ ItIdle
    /\ ClIdle
    /\ PlIdle
    /\ AtIdle
    /\ RdIdle
    /\ ScIdle
    /\ OrIdle

\* A request passes through authMiddleware.
AuthRequest ==
    /\ lastAuth = NoAuth
    /\ LET a == authMiddleware(auFuncs)
       IN /\ lastAuth' = [ op |-> "request", status |-> a.status, next |-> a.next,
                           user |-> a.user, consulted |-> a.consulted ]
          /\ auUser' = IF a.next THEN a.user ELSE auUser
    /\ UNCHANGED <<auSec, auFuncs>>
    /\ UNCHANGED <<redVars, idxVars, stVars, lsVars, itVars, clVars, plVars, atVars, rdVars, scVars, orVars>>

NextAuth == AuthRequest

SpecAuth == InitAuth /\ [][NextAuth]_vars

(***************************************************************************)
(* Claims about the reduce engine                                          *)
(***************************************************************************)

\* C1: with groupLevel 0 and a _count or _sum reducer, Reduce of a non-empty
\* input, raw and pre-reduced rows mixed in any order, returns exactly one
\* row, with Key null and the value of the unpartitioned reduce.
C1_UngroupedTotal ==
    (rpc = "done" /\ groupLevel = 0) =>
        /\ Len(out) = 1
        /\ out[1].Key = KeyNull
        /\ out[1].Value = RefValue(rows, fnName)

C1_Witness ==
    /\ rpc = "done"
    /\ groupLevel = 0
    /\ fnName = "_count"
    /\ Len(rows) = 3
    /\ ~IsRaw(rows[1]) /\ IsRaw(rows[2]) /\ ~IsRaw(rows[3])
    /\ rows[2].Value = 2
    /\ depth = 2
    /\ out[1].Value = rows[1].Value + 1 + rows[3].Value

\* C2: the rows Reduce returns hold one row per group: no two of them have
\* equal truncated keys.
C2_OneRowPerGroup ==
    rpc = "done" =>
        \A i, j \in 1..Len(out) :
            i # j => truncateKey(out[i].Key, groupLevel) # truncateKey(out[j].Key, groupLevel)

\* C3: with groupLevel -1 every distinct key is its own group: no batch holds
\* rows of different keys, every output row carries the key of the rows
\* reduced into it, and the output has one row per distinct key.
C3_GroupTrueByFullKey ==
    (rpc = "done" /\ groupLevel = -1) =>
        /\ \A i \in 1..Len(calls) :
              /\ Cardinality(BatchKeys(calls[i])) = 1
              /\ \A r \in 1..Len(calls[i].rows) : calls[i].rows[r].Key \in BatchKeys(calls[i])
        /\ KeyValue(out) = Expected(rows, fnName, -1)

\* C4: every reducer call has a homogeneous batch: rereduce=false only with
\* raw rows, rereduce=true only with pre-reduced rows.
C4_HomogeneousBatch ==
    \A i \in FnCalls :
        \A k \in 1..Len(calls[i].keys) : (calls[i].keys[k][2] = "") = calls[i].rereduce

\* C5: with groupLevel N >= 1 rows are reduced together exactly when their
\* keys truncated to N are equal, the output Key is the truncated key, and a
\* level that no key exceeds gives the output of groupLevel -1.
C5_GroupLevelN ==
    (rpc = "done" /\ groupLevel >= 1) =>
        /\ \A i \in 1..Len(calls) :
              Cardinality({ truncateKey(k, groupLevel) : k \in BatchKeys(calls[i]) }) = 1
        /\ KeyValue(out) = Expected(rows, fnName, groupLevel)
        /\ (\A i \in 1..Len(rows) : keyLen(rows[i].Key) <= groupLevel)
              => out = Reduce(rows, fnName, -1)

\* C6: a batch of exactly one pre-reduced row is passed through, its value
\* unchanged and the reducer not called; a batch of one raw row is given to
\* the reducer with rereduce=false.
C6_SinglePassThrough ==
    \A i \in 1..Len(calls) :
        LET c == calls[i]
        IN /\ (Len(c.keys) = 1 /\ c.keys[1][2] = "") =>
                 /\ c.via = "pass"
                 /\ Len(c.rows) = 1
                 /\ c.rows[1].Value = c.values[1]
           /\ (Len(c.keys) = 1 /\ c.keys[1][2] # "") =>
                 /\ c.via = "fn"
                 /\ ~c.rereduce
           /\ c.via = "pass" => (Len(c.keys) = 1 /\ c.keys[1][2] = "")

C6_Witness ==
    /\ rpc = "done"
    /\ \E i \in PassThroughs : calls[i].rows[1].Value = 2
    /\ \E i \in FnCalls : Len(calls[i].keys) = 1 /\ calls[i].keys[1][2] # ""

(***************************************************************************)
(* Claims about the view index                                             *)
(***************************************************************************)
\* The rows the map function emits on the winning non-deleted revision of
\* each document, read off the revision tree.
IsLeaf(r) == \A c \in docs : ~(c.id = r.id /\ c.parent = << r.rev, r.rev_id >>)
WinningRevs ==
    { r \in docs : /\ r.id \in DocIDs
                   /\ IsLeaf(r)
                   /\ ~r.deleted
                   /\ \A o \in docs :
                         (o.id = r.id /\ IsLeaf(o) /\ ~o.deleted) => (o = r \/ RevLess(o, r)) }
ExpectedRows == { [ id |-> r.id, key |-> r.val, value |-> r.val ] : r \in WinningRevs }

\* C7: after puts, updates and deletes, a query with update=true leaves and
\* returns exactly the rows emitted on the winning non-deleted revision of
\* each document; deleted documents and superseded or non-winning revisions
\* contribute none.
C7_IndexIsWinningEmissions ==
    (lastQuery.status = 200 /\ lastQuery.update = "true") =>
        /\ mapTable[View] = ExpectedRows
        /\ lastQuery.rows = ExpectedRows
        /\ design[View] = nextSeq - 1

C7_Witness ==
    /\ lastQuery.status = 200
    /\ lastQuery.update = "true"
    /\ \E w \in WinningRevs, r \in docs :
          /\ r.id = w.id
          /\ r # w
          /\ IsLeaf(r)
          /\ r.val # w.val
          /\ lastQuery.rows = { [ id |-> w.id, key |-> w.val, value |-> w.val ] }

\* C8: a query with update=false returns the rows that are in the index when
\* it is called and changes neither last_seq nor the map rows, and starts no
\* indexing pass.
C8_UpdateFalseReadsOnly ==
    [][ lastQuery'.update = "false" =>
            /\ lastQuery'.rows = mapTable[View]
            /\ design' = design
            /\ mapTable' = mapTable
            /\ bg' = bg ]_vars

C8_Witness ==
    /\ lastQuery.status = 200
    /\ lastQuery.update = "false"
    /\ lastQuery.rows = {}
    /\ design[CurRev] = 0
    /\ ExpectedRows # {}

\* C9: a query with update=lazy returns the rows currently in the index
\* without indexing and starts a background pass of the view; the pass ends,
\* leaving the index complete for the documents stored then, and an
\* update=false query of a complete index returns every row.
C9_LazyStartsBackgroundPass ==
    /\ [][ lastQuery'.update = "lazy" =>
              /\ lastQuery'.rows = mapTable[View]
              /\ design' = design
              /\ mapTable' = mapTable
              /\ View \in bg' ]_vars
    /\ [][ \A v \in bg \ bg' :
              /\ design'[v] = nextSeq - 1
              /\ mapTable'[v] = ExpectedRows ]_vars
    /\ []((lastQuery.update = "false" /\ design[CurRev] = nextSeq - 1)
              => lastQuery.rows = ExpectedRows)
    /\ \A v \in 1..MaxSeq : (v \in bg) ~> (v \notin bg)

C9_Witness ==
    /\ lastQuery.status = 200
    /\ lastQuery.update = "lazy"
    /\ lastQuery.rows = {}
    /\ ExpectedRows # {}
    /\ CurRev \in bg

\* C10: while the current design revision has not been indexed, a query with
\* update=false returns no rows, also when the index of the previous
\* revision is complete.
C10_NewDesignRevNotServed ==
    (lastQuery.status = 200 /\ lastQuery.update = "false" /\ design[CurRev] = 0) =>
        lastQuery.rows = {}

C10_Witness ==
    /\ CurRev = 2
    /\ design[1] = 2
    /\ mapTable[1] # {}
    /\ design[2] = 0
    /\ lastQuery.status = 200
    /\ lastQuery.update = "false"
    /\ lastQuery.rows = {}

(***************************************************************************)
(* Claims about the document store                                         *)
(***************************************************************************)
\* C11: GetRev without a rev option resolves to the winning revision, the
\* highest (rev, rev_id) among the non-deleted leaves of the document, and
\* reports not-found only when the document has no non-deleted leaf.
C11_GetResolvesWinner ==
    (lastGet.status # 0 /\ lastGet.asked = ZeroRev) =>
        LET w == { r \in WinningRevs : r.id = lastGet.id }
        IN IF w = {}
           THEN lastGet.status = 404
           ELSE /\ lastGet.status = 200
                /\ \E r \in w : lastGet.rev = r.rev /\ lastGet.rev_id = r.rev_id

\* C12: every row added to the docs table gets a seq greater than every seq
\* assigned before, also after rows have been removed.
C12_SeqNeverReused ==
    [][\A r \in docs' \ docs : \A s \in assigned : s < r.seq]_vars

(***************************************************************************)
(* Claims about indexing passes                                            *)
(***************************************************************************)
\* The rows emitted on the winning revisions as the change seq left them.
WinningRevsAt(seq) ==
    { r \in docs :
        /\ r.id \in DocIDs
        /\ r.seq <= seq
        /\ ~r.deleted
        /\ \A c \in docs : ~(c.seq <= seq /\ c.id = r.id /\ c.parent = << r.rev, r.rev_id >>)
        /\ \A o \in docs :
              ( /\ o.seq <= seq /\ o.id = r.id /\ ~o.deleted
                /\ \A c \in docs :
                      ~(c.seq <= seq /\ c.id = o.id /\ c.parent = << o.rev, o.rev_id >>) )
              => (o = r \/ RevLess(o, r)) }
RowsAt(seq) == { [ id |-> r.id, key |-> r.val, value |-> r.val ] : r \in WinningRevsAt(seq) }

\* C13: at most one indexing pass runs for a view at any time, and a reader
\* of a view (update=false or lazy) sees, whatever its indexer is doing, the
\* emissions for the last_seq the view has at that moment.
C13_OnePassPerView ==
    /\ \A p, q \in passes : p.v = q.v => p = q
    /\ (lastQuery.status = 200 /\ lastQuery.update \in { "false", "lazy" }) =>
           lastQuery.rows = RowsAt(design[View])

\* Passes of two views run at once, and a reader of a view reads it while
\* its pass has a batch open that the reader does not see.
C13_Witness ==
    /\ lastQuery.status = 200
    /\ lastQuery.update = "false"
    /\ \E p, q \in passes :
          /\ p.v # q.v
          /\ p.v = View
          /\ p.dirty
          /\ p.tbl # lastQuery.rows

\* C14: whenever a pass is cancelled, no partial commit remains: the map
\* rows of every view are those for its stored last_seq, and an update=true
\* query that completes later returns the index of an uninterrupted pass.
C14_NoPartialCommit ==
    /\ \A v \in 1..CurRev : mapTable[v] = RowsAt(design[v])
    /\ (lastQuery.status = 200 /\ lastQuery.update = "true") =>
           lastQuery.rows = indexFrom({}, 1)

C14_Witness ==
    /\ CurRev > 0
    /\ interrupted
    /\ lastQuery.status = 200
    /\ lastQuery.update = "true"
    /\ lastQuery.rows # {}

(***************************************************************************)
(* Claims about iterators                                                  *)
(***************************************************************************)
\* C15: after an iterator is closed before it is exhausted, every later read
\* returns the "iterator closed" error, not the end of data.
C15_ClosedReadsFail ==
    (closedEarly /\ lastRead.op = "next") => lastRead.result = "iterator closed"

\* C16: Close on an iterator that is closed already (by Close, or by itself
\* at the end of the data) changes no state, returns no error and leaves
\* what Err returns as it was.
C16_CloseIdempotent ==
    [][(closeCalls' # closeCalls /\ itState # "open") =>
          /\ itRows' = itRows
          /\ itState' = itState
          /\ itErr' = itErr
          /\ lastRead'.result = "nil"]_vars

\* A second Close of reduce.Rows closed early, and of kivik rows that ended
\* with an error.
C16_Witness ==
    /\ closeCalls = 2
    /\ lastRead.op = "close"
    /\ \/ itKind = "reduce" /\ closedEarly
       \/ itKind = "rows" /\ itErr # ""

BatchFirst(c) == c.input[1].First
BatchLast(c) == c.input[Len(c.input)].Last

\* C19: when one call of the reducer returns several results, every row
\* made of them carries the range of the batch: First of its first input
\* row, Last of its last.
C19_EveryResultHasBatchRange ==
    \A i \in 1..Len(calls) :
        (calls[i].via = "fn" /\ Len(calls[i].rows) > 1) =>
            \A j \in 1..Len(calls[i].rows) :
                /\ calls[i].rows[j].First = BatchFirst(calls[i])
                /\ calls[i].rows[j].Last = BatchLast(calls[i])

\* C20: every row Reduce returns, made by the reducer or by passing a single
\* pre-reduced row through, carries the range of exactly the rows reduced
\* into it, and nothing of a preceding batch.  Stated for the runs of one
\* pass, whose batches are made of the rows handed to Reduce.
C20_RangeOfContributingRows ==
    (rpc = "done" /\ depth = 1) =>
        \A i \in 1..Len(calls) :
            \A j \in 1..Len(calls[i].rows) :
                /\ calls[i].rows[j] = out[i + j - 1]
                /\ calls[i].rows[j].First = BatchFirst(calls[i])
                /\ calls[i].rows[j].Last = BatchLast(calls[i])

(***************************************************************************)
(* Claims about queries with options                                       *)
(***************************************************************************)
\* The documents on which the map function of the view throws.
Throwers == { d \in qDocs : qView.map = "throws" /\ d.k = ThrowsOn }

\* C21: a map function that throws for a document makes that document
\* contribute no row to the view, the pair it emitted before throwing
\* included; the failure is logged, the other documents are indexed as they
\* emit, and the query succeeds.
C21_ThrowingDocHasNoRows ==
    /\ lastPlan.status = 200 =>
          /\ \A d \in Throwers : d.id \in qLogs /\ ~\E r \in qIndex : r.id = d.id
          /\ \A d \in qDocs \ Throwers :
                { r \in qIndex : r.id = d.id } = { [ id |-> d.id, key |-> Scalar(d.k), value |-> 1 ] }
          /\ qLogs \subseteq { d.id : d \in Throwers }
    /\ lastPlan.status = 400 => validate(qView, qOpts) # ""

C21_Witness ==
    /\ lastPlan.status = 200
    /\ Throwers # {}
    /\ qDocs \ Throwers # {}
    /\ Len(lastPlan.rows) > 0
    /\ \A d \in Throwers : d.id \in qLogs

\* The options reduce, or ask for what only a reduce has, on a map-only
\* view; or ask for documents or conflicts while reduce is in effect.
Incompatible ==
    \/ /\ qView.reduce = ""
       /\ qOpts.group \/ qOpts.group_level # "unset" \/ qOpts.reduce = "true"
    \/ /\ qOpts.include_docs \/ qOpts.conflicts
       /\ qOpts.reduce = "true" \/ (qOpts.reduce = "unset" /\ qView.reduce # "")

\* C22: a query with incompatible options is rejected with 400 and returns
\* no rows: group, group_level or reduce=true on a view without a reduce
\* function, and include_docs or conflicts whenever reduce is in effect,
\* given as reduce=true or on by default.
C22_IncompatibleOptionsRejected ==
    (lastPlan.status # 0 /\ Incompatible) =>
        /\ lastPlan.status = 400
        /\ lastPlan.rows = <<>>

\* conflicts with the reduce that is on by default, documents stored.
C22_Witness ==
    /\ lastPlan.status = 400
    /\ qView.reduce = "_count"
    /\ qOpts.reduce = "unset"
    /\ qOpts.conflicts
    /\ ~qOpts.include_docs
    /\ qDocs # {}

\* The keys of a set in the direction of a scan.
RECURSIVE KeysInOrder(_, _)
KeysInOrder(S, descending) ==
    IF S = {} THEN <<>>
    ELSE LET first == CHOOSE k \in S :
                         \A o \in S : IF descending THEN o <= k ELSE k <= o
         IN << first >> \o KeysInOrder(S \ { first }, descending)

\* The grouped output over the documents whose key satisfies the test In:
\* one row per key, in scan order, with the number of its documents.
GroupsOf(stored, descending) ==
    LET ks == KeysInOrder({ d.k : d \in stored }, descending)
    IN [ g \in 1..Len(ks) |->
           [ id |-> 0, key |-> Scalar(ks[g]),
             value |-> Cardinality({ d \in stored : d.k = ks[g] }) ] ]

Grouping == qOpts.group \/ qOpts.group_level = "1"

\* C23: when a query reduces with grouping, skip and limit count groups:
\* the response is the groups skip+1 .. skip+limit of the grouped output in
\* scan order, each with the value reduced over all rows of its group.
C23_PagingCountsGroups ==
    ( /\ lastPlan.status = 200
      /\ reduceOn(qView, qOpts)
      /\ Grouping
      /\ qOpts.startkey = 0 /\ qOpts.endkey = 0 ) =>
        LET groups == GroupsOf(qDocs \ Throwers, qOpts.descending)
            upto == IF qOpts.limit < 0 \/ qOpts.skip + qOpts.limit > Len(groups)
                    THEN Len(groups) ELSE qOpts.skip + qOpts.limit
        IN lastPlan.rows = SubSeq(groups, qOpts.skip + 1, upto)

\* The second group of a descending scan, which has two rows, is the page.
C23_Witness ==
    /\ lastPlan.status = 200
    /\ qOpts.group
    /\ qOpts.descending
    /\ qOpts.skip = 1
    /\ qOpts.limit = 1
    /\ Cardinality(qDocs) = 3
    /\ Len(lastPlan.rows) = 1
    /\ lastPlan.rows[1].value = 2

\* The documents of the range that runs from startkey down to endkey.
DownRange ==
    { d \in qDocs \ Throwers :
        /\ qOpts.startkey = 0 \/ d.k <= qOpts.startkey
        /\ qOpts.endkey = 0 \/ qOpts.endkey < d.k \/ (qOpts.inclusive_end /\ d.k = qOpts.endkey) }

\* C24: with descending=true the rows come in reverse collation order and
\* the range runs from startkey down to endkey: exactly the rows with
\* endkey <= key <= startkey are in it, without those of endkey when
\* inclusive_end=false; for map-only, reduced and grouped queries.
C24_DescendingRange ==
    ( /\ lastPlan.status = 200
      /\ qOpts.descending
      /\ qOpts.skip = 0 /\ qOpts.limit = -1 ) =>
        IF ~reduceOn(qView, qOpts)
        THEN /\ { r.id : r \in { lastPlan.rows[i] : i \in 1..Len(lastPlan.rows) } }
                  = { d.id : d \in DownRange }
             /\ Len(lastPlan.rows) = Cardinality(DownRange)
             /\ \A i \in 1..Len(lastPlan.rows) :
                   /\ \E d \in DownRange :
                         d.id = lastPlan.rows[i].id /\ Scalar(d.k) = lastPlan.rows[i].key
                   /\ i > 1 => RowLess(lastPlan.rows[i], lastPlan.rows[i - 1])
        ELSE IF Grouping
        THEN lastPlan.rows = GroupsOf(DownRange, TRUE)
        ELSE lastPlan.rows = IF DownRange = {} THEN <<>>
                             ELSE << [ id |-> 0, key |-> KeyNull,
                                       value |-> Cardinality(DownRange) ] >>

\* A descending range that ends before endkey, over documents above, at and
\* below the range.
C24_Witness ==
    /\ lastPlan.status = 200
    /\ qOpts.descending
    /\ qOpts.startkey = 2
    /\ qOpts.endkey = 1
    /\ ~qOpts.inclusive_end
    /\ { d.k : d \in qDocs } = PlanKeys
    /\ Len(lastPlan.rows) = 1

(***************************************************************************)
(* Claims about the order of reduced rows                                  *)
(***************************************************************************)
\* The place of a key in the collation order.
KeyIdx(key) == CHOOSE i \in 1..Len(KeyOrder) : KeyOrder[i] = key
Ascending(rs) == \A i \in 1..(Len(rs) - 1) : KeyIdx(rs[i].Key) <= KeyIdx(rs[i + 1].Key)
Descending(rs) == \A i \in 1..(Len(rs) - 1) : KeyIdx(rs[i].Key) >= KeyIdx(rs[i + 1].Key)

\* The rows Reduce returns follow the input: each ends later in it than the
\* one before.
InInputOrder == \A i \in 1..(Len(out) - 1) : out[i].Last < out[i + 1].Last

\* C25: Reduce emits its rows in the order in which their groups occur in
\* the input, so that an ascending scan gives ascending group keys and a
\* descending scan descending ones, also after a re-reduce pass.
C25_OutputFollowsScan ==
    rpc = "done" =>
        /\ InInputOrder
        /\ Ascending(rows) => Ascending(out)
        /\ Descending(rows) => Descending(out)

(***************************************************************************)
(* Claims about the termination of Reduce                                  *)
(***************************************************************************)
\* C30: with a reducer that returns one result per call, Reduce of a finite
\* key-sorted input terminates after at most one recursive re-reduce pass
\* over its own output: the second invocation of reduce() returns.
C30_OneRereducePass ==
    depth >= 2 => rpc = "done"

(***************************************************************************)
(* Claims about DeleteAttachment                                           *)
(***************************************************************************)
\* C26: a successful DeleteAttachment(docID, filename, rev) adds exactly one
\* revision, the child of rev with rev's number plus one, which references
\* the attachments of rev except filename; every revision there was stays,
\* with its attachments unchanged, also when rev is a non-winning leaf.
C26_DeleteAddsOneRevision ==
    [][lastDel'.status = 200 =>
          /\ atRevs \subseteq atRevs'
          /\ Cardinality(atRevs' \ atRevs) = 1
          /\ \A new \in atRevs' \ atRevs :
                /\ new.parent = lastDel'.asked
                /\ new.rev = lastDel'.asked[1] + 1
                /\ { b.filename : b \in { x \in atBridge' : x.rev = RevOf(new) } }
                      = { b.filename : b \in { x \in atBridge : x.rev = lastDel'.asked } }
                           \ { lastDel'.filename }
          /\ \A r \in atRevs :
                { x \in atBridge' : x.rev = RevOf(r) } = { x \in atBridge : x.rev = RevOf(r) }
      ]_vars

\* foo.txt was deleted on a leaf with two attachments that was not the
\* winner: a leaf of another branch had the higher rev.
C26_Witness ==
    /\ lastDel.status = 200
    /\ lastDel.filename = "foo.txt"
    /\ \E new \in AttLeaves :
          /\ new.parent = lastDel.asked
          /\ AttachmentsOf(RevOf(new)) = { "bar.txt" }
          /\ AttachmentsOf(lastDel.asked) = Files
          /\ \E other \in AttLeaves :
                /\ other.parent # lastDel.asked
                /\ other.rev = lastDel.asked[1]
                /\ other.rev_id > lastDel.asked[2]

RdReturns ==
    /\ rdState = "open"
    /\ lastRd'.op = "read"
    /\ lastRd'.result # "pending"
    /\ lastRd' # lastRd \/ rdOut' # rdOut \/ rdBlocked # rdBlocked'

RECURSIVE AfterDelays(_)
AfterDelays(src) ==
    IF src # <<>> /\ Head(src) = Delay THEN AfterDelays(Tail(src)) ELSE src

\* C29: once the context is cancelled or timed out, a read returns the
\* error of the context and delivers no further data; a context cancelled
\* before the first read lets no byte through, and a cancellation while the
\* underlying read is blocked ends the read without waiting for it; without
\* cancellation the data and the read errors of the underlying reader are
\* passed through unchanged.
C29_CancelableRead ==
    /\ [](rdCtx.err # "" => Len(rdOut) = rdCtx.at)
    /\ [][(RdReturns /\ rdCtx.err # "") =>
             /\ lastRd'.result = rdCtx.err
             /\ rdOut' = rdOut
             /\ rdSrc' = rdSrc]_vars
    /\ [][(RdReturns /\ rdCtx.err = "") =>
             LET src == AfterDelays(rdSrc)
             IN IF src = <<>> THEN lastRd'.result = "EOF" /\ rdOut' = rdOut
                ELSE IF Head(src) = 0 THEN lastRd'.result = "read err" /\ rdOut' = rdOut
                ELSE lastRd'.result = "row" /\ rdOut' = Append(rdOut, Head(src))]_vars

\* The deadline passed while the read after the first data was blocked: the
\* read returned the error, and the data behind the delay was not read.
C29_Witness ==
    /\ rdOut = << 1 >>
    /\ rdCtx = [ err |-> "context deadline exceeded", at |-> 1 ]
    /\ lastRd.result = "context deadline exceeded"
    /\ ~rdBlocked
    /\ rdSrc = << Delay, 2 >>

(***************************************************************************)
(* Claims about ScanAllDocs                                                *)
(***************************************************************************)
\* The rows that Next still delivers from an iterator in this state.
RECURSIVE UpToReadErr(_)
UpToReadErr(rs) ==
    IF rs = <<>> \/ Head(rs) = 0 THEN <<>> ELSE << Head(rs) >> \o UpToReadErr(Tail(rs))
Remaining == IF itState = "open" THEN UpToReadErr(itRows) ELSE <<>>

MinOf(a, b) == IF a < b THEN a ELSE b

\* C28: ScanAllDocs leaves the iterator closed when it returns, also when
\* it returns early because dest is not a pointer to a slice or array; a
\* slice gets one element more per remaining row, after those it had; an
\* array of length n gets the first n remaining rows at its indexes 0..n-1
\* and nothing else.
C28_ScanAllDocs ==
    [][lastScan' # lastScan =>
        /\ itState' # "open"
        /\ scDest'.kind = scDest.kind
        /\ LET old == scDest.elems
               new == scDest'.elems
               n == Len(old)
           IN IF scRowsErr # "" \/ scDest.kind \notin { "slice", "array" } \/ (scDest.kind = "array" /\ n = 0)
              THEN new = old /\ lastScan'.result \notin { "", "nil" }
              ELSE IF scDest.kind = "slice"
              THEN /\ Len(new) = n + Len(Remaining)
                   /\ SubSeq(new, 1, n) = old
                   /\ \A i \in 1..Len(Remaining) :
                        Remaining[i] # BadRow => new[n + i] = Remaining[i]
              ELSE /\ Len(new) = n
                   /\ \A i \in 1..n :
                        IF i <= Len(Remaining)
                        THEN Remaining[i] # BadRow => new[i] = Remaining[i]
                        ELSE new[i] = old[i]]_vars

\* An array of two elements was filled from an open iterator that had three
\* rows left.
C28_Witness ==
    /\ lastScan.result = "nil"
    /\ lastScan.state = "open"
    /\ Len(lastScan.rows) = 3
    /\ scDest = [ kind |-> "array", elems |-> << 2, 1 >> ]
    /\ itState = "closed"

\* The rows that the loop of the ScanAllDocs just performed has scanned.
Scanned ==
    LET rem == IF lastScan.state = "open" THEN UpToReadErr(lastScan.rows) ELSE <<>>
        n == IF scDest.kind = "array" THEN MinOf(Len(scDest.elems), Len(rem)) ELSE Len(rem)
    IN SubSeq(rem, 1, n)

\* C33: when scanning a row fails during ScanAllDocs, ScanAllDocs returns
\* the error of that row, and the documents scanned before it are in dest.
C33_ScanErrorReturned ==
    ( /\ lastScan # NoScan
      /\ scRowsErr = ""
      /\ destErr(scDest) = ""
      /\ \E i \in 1..Len(Scanned) : Scanned[i] = BadRow )
    => lastScan.result = "row error"

(***************************************************************************)
(* Claims about Reduce with a reducer that returns several results         *)
(***************************************************************************)
\* What reduce() decides on: the key and the ID of each row, in order.
Shape(rs) == [ i \in 1..Len(rs) |-> << rs[i].Key, rs[i].ID >> ]

\* C31: Reduce terminates when the reducer returns several results for one
\* call, for groupLevel 0 and for grouped reduces.  reduce() decides on the
\* keys and IDs of its rows only, so it terminates only if no invocation
\* hands to the recursive call rows with the keys and IDs of its own input.
C31_MultiResultTerminates ==
    rpc = "reduce" =>
        LET o == reducePass(pending, fnName, groupLevel).out
        IN ~(needsRereduce(o, groupLevel) /\ Shape(o) = Shape(pending))

(***************************************************************************)
(* Claims about getCoreDoc with latest=true                                *)
(***************************************************************************)
\* The non-deleted leaves of id that descend from the revision rev of id.
LiveUnder(id, rev) ==
    Live(id) \cap Descendants({ d \in docs : d.id = id /\ << d.rev, d.rev_id >> = rev })

\* C32: getCoreDoc with a rev and latest=true returns a revision of the
\* requested id: the highest non-deleted leaf that descends from the given
\* rev, or, when there is none, the winning non-deleted leaf of that
\* document; never a revision stored under another id.
C32_LatestOfSameDoc ==
    lastGet.status = 200 =>
        LET under == LiveUnder(lastGet.id, lastGet.asked)
            want == IF under # {} THEN TopRow(under) ELSE Winner(lastGet.id)
        IN /\ under # {} \/ HasWinner(lastGet.id)
           /\ << lastGet.rev, lastGet.rev_id >> = << want.rev, want.rev_id >>

(***************************************************************************)
(* Claims about OpenRevs                                                   *)
(***************************************************************************)
\* C34: the iterator of OpenRevs delivers every row of its result set once
\* and in order: the row OpenRevs fetched is the first row of Next, Next
\* returns EOF only after the last row, and a revision that is not stored
\* gives a row with the error 404 and does not end the iteration.
C34_OpenRevsDelivers ==
    /\ Len(orGot) <= Len(orSet)
    /\ \A i \in 1..Len(orGot) :
          /\ orGot[i].rev = i
          /\ IF orSet[i].kind = "missing" THEN orGot[i].err = 404
             ELSE orGot[i].doc = [ rev |-> i, deleted |-> orSet[i].kind,
                                   atts |-> 1..orSet[i].atts ]
    /\ (orStatus = "iter" /\ lastOR.result = "EOF") => Len(orGot) = Len(orSet)

\* Three revisions, the first with two attachments, the second not stored:
\* all three were delivered before Next returned EOF.
C34_Witness ==
    /\ Len(orSet) = 3
    /\ orSet[1] = [ kind |-> "live", atts |-> 2 ]
    /\ orSet[2].kind = "missing"
    /\ orStatus = "iter"
    /\ lastOR.result = "EOF"
    /\ Len(orGot) = 3

(***************************************************************************)
(* Claims about the access checks and the auth middleware                  *)
(***************************************************************************)
\* The status of a refusal: 401 without a user, 403 with one.
Refusal == IF auUser.nil THEN 401 ELSE 403

MemberGranted ==
    \/ auSec.mNames = {} /\ auSec.mRoles = {}
    \/ /\ ~auUser.nil
       /\ \/ auUser.name \in auSec.mNames \cup auSec.aNames
          \/ auUser.roles \cap (auSec.mRoles \cup auSec.aRoles) # {}
          \/ RoleAdmin \in auUser.roles

AdminGranted ==
    /\ ~auUser.nil
    /\ \/ auUser.name \in auSec.aNames
       \/ auUser.roles \cap auSec.aRoles # {}
       \/ RoleAdmin \in auUser.roles

\* C35: validateDBMembership grants access exactly when the security object
\* lists no member names and no member roles, or the user is authenticated
\* and is named among the members or admins, holds one of their roles or
\* the server admin role; validateDBAdmin exactly when the user is
\* authenticated and is named among the admins, holds one of their roles or
\* the server admin role; a refusal is 401 without a user and 403 with one.
C35_AccessRules ==
    /\ lastAuth.op = "member" =>
          lastAuth.status = IF MemberGranted THEN 0 ELSE Refusal
    /\ lastAuth.op = "admin" =>
          lastAuth.status = IF AdminGranted THEN 0 ELSE Refusal

\* A user who only holds a role of the admins passed the admin check of a
\* database that has members.
C35_Witness ==
    /\ lastAuth.op = "admin"
    /\ lastAuth.status = 0
    /\ auSec.mNames # {}
    /\ auUser.name \notin auSec.aNames \cup auSec.mNames
    /\ RoleAdmin \notin auUser.roles
    /\ auUser.roles \cap auSec.mRoles = {}

\* C36: for every user and every security object, a user accepted by
\* validateDBAdmin is accepted by validateDBMembership, and a request
\* without a user is never accepted as database admin.
C36_AdminImpliesMember ==
    validateDBAdmin(auUser, auSec) = 0 =>
        /\ validateDBMembership(auUser, auSec) = 0
        /\ ~auUser.nil

\* A user named among the admins only passed the membership check of a
\* database whose members are others.
C36_Witness ==
    /\ lastAuth.op = "member"
    /\ lastAuth.status = 0
    /\ validateDBAdmin(auUser, auSec) = 0
    /\ auSec.mNames # {}
    /\ auUser.name \notin auSec.mNames
    /\ auUser.roles = {}

\* The first auth function that returns an error, has written a response or
\* returns a user (0: none does).
FirstStop ==
    LET stops == { i \in 1..Len(auFuncs) :
                     auFuncs[i].err \/ auFuncs[i].done \/ ~auFuncs[i].user.nil }
    IN IF stops = {} THEN 0 ELSE CHOOSE i \in stops : \A j \in stops : i <= j

\* C37: authMiddleware consults the auth functions in order and stops at the
\* first that returns an error (the request fails, the next handler is not
\* called), has written a response (the next handler is not called) or
\* returns a user (who becomes the request's user); when none does, the next
\* handler runs without a user; with no auth functions the request runs as
\* the user "admin" with the admin role.
C37_AuthMiddleware ==
    lastAuth.op = "request" =>
        IF auFuncs = <<>>
        THEN lastAuth.next /\ lastAuth.user = User("admin", { RoleAdmin })
        ELSE IF FirstStop = 0
        THEN lastAuth.next /\ lastAuth.user = Nobody /\ lastAuth.consulted = Len(auFuncs)
        ELSE LET f == auFuncs[FirstStop]
             IN /\ lastAuth.consulted = FirstStop
                /\ IF f.err THEN ~lastAuth.next /\ lastAuth.status = AuthFuncErr
                   ELSE IF f.done THEN ~lastAuth.next /\ lastAuth.status = 0
                   ELSE lastAuth.next /\ lastAuth.user = f.user /\ lastAuth.status = 0

\* The first function passed, the second wrote a response and returned a
\* user, the third would have returned an error: neither the third nor the
\* next handler was called.
C37_Witness ==
    /\ Len(auFuncs) = 3
    /\ auFuncs[1] = [ err |-> FALSE, done |-> FALSE, user |-> Nobody ]
    /\ auFuncs[2] = [ err |-> FALSE, done |-> TRUE, user |-> User("u", {}) ]
    /\ auFuncs[3].err
    /\ lastAuth.op = "request"
    /\ lastAuth.consulted = 2
    /\ ~lastAuth.next

====
